---- MODULE Spec2Model ----
(***************************************************************************)
(* A model of the Model Context Protocol reference implementation:         *)
(*   - the envelope codec (src/core/mcp-schema.js),                         *)
(*   - the server's tool registry and dispatcher (src/core/mcp-server.js), *)
(*   - the client (src/core/mcp-client.js),                                 *)
(*   - the agent's control loop (src/core/mcp-agent.js).                    *)
(*                                                                         *)
(* JavaScript values are records [kind, keys, str]: kind is the value's     *)
(* type, keys the property names of an object, str the text of a string    *)
(* (a sequence of tokens; concatenation is \o) or the payload of an object.*)
(* Message literals are written without diacritics.                        *)
(***************************************************************************)
EXTENDS Integers, Sequences, FiniteSets, TLC

VARIABLES
    tools,              \* MCPServer.tools: Map name -> handler (insertion order)
    toolDescriptions,   \* MCPServer.toolDescriptions: Map name -> description
    toolSchemas,        \* MCPServer.toolSchemas: Map name -> schema
    lastCall,           \* the last server operation and what it returned
    variant,            \* which MCPAgent class: "claude" (lines 15-545) or "rules" (561-903)
    maxRetries,         \* MCPAgent.maxRetries
    conversations,      \* MCPAgent.context.conversations
    now,                \* Date.now()
    call,               \* the processUserQuery calls: per slot, the call's frame
    sandbox             \* the process of the code tools: console.log and the runs of safeEval

serverVars == <<tools, toolDescriptions, toolSchemas, lastCall, sandbox>>
agentVars == <<variant, maxRetries, conversations, now, call>>

(***************************************************************************)
(* Bounds of the model.                                                    *)
(***************************************************************************)
MaxUserTools == 2
MaxPlanLen == 2         \* the longest plan a completion returns
MaxRetriesOption == 3   \* the largest options.maxRetries
MaxClock == 21          \* Date.now() stops advancing there
MaxSlots == 2           \* processUserQuery calls that may overlap
MaxTurns == 6           \* the length of the log up to which a dialogue is followed
MaxRuns == 2            \* invocations of executeCode that may overlap

(***************************************************************************)
(* Constants of the program.                                               *)
(***************************************************************************)
DefaultMaxRetries == 3
MaxConversations == 20
RetryDelayMs == 1000

(***************************************************************************)
(* JavaScript values.                                                      *)
(***************************************************************************)
Undefined == [kind |-> "undefined", keys |-> {}, str |-> <<>>]
Null == [kind |-> "null", keys |-> {}, str |-> <<>>]
TrueV == [kind |-> "boolean", keys |-> {}, str |-> <<"true">>]
StrV(s) == [kind |-> "string", keys |-> {}, str |-> s]
NumV(s) == [kind |-> "number", keys |-> {}, str |-> s]
ObjV(ks, s) == [kind |-> "object", keys |-> ks, str |-> s]
ArrV(s) == [kind |-> "array", keys |-> {}, str |-> s]
FunV(s) == [kind |-> "function", keys |-> {}, str |-> s]
\* new Error(message)
ErrorV(m) == ObjV({"message"}, m)

\* The result of an expression that may throw.
Ok(v) == [threw |-> FALSE, val |-> v]
Thrown(e) == [threw |-> TRUE, val |-> e]

\* Reading a property of undefined or null.
TypeErrorOf(v) == ErrorV(<<"Cannot read properties of ", v.kind>>)

\* v.message
Message(v) ==
    IF v.kind \in {"undefined", "null"} THEN Thrown(TypeErrorOf(v))
    ELSE IF v.kind = "object" /\ "message" \in v.keys THEN Ok(StrV(v.str))
    ELSE Ok(Undefined)

\* ${v} in a template literal
ToStr(v) ==
    CASE v.kind = "undefined" -> <<"undefined">>
      [] v.kind = "null" -> <<"null">>
      [] v.kind = "object" -> <<"[object Object]">>
      [] v.kind = "function" -> <<"[function]">>
      [] OTHER -> v.str

\* if (v)
Truthy(v) ==
    CASE v.kind \in {"undefined", "null"} -> FALSE
      [] v.kind = "string" -> v.str # <<>>
      [] v.kind = "number" -> v.str # <<"0">>
      [] OTHER -> TRUE

Whitespace == {" "}

RECURSIVE TrimStart(_)
TrimStart(s) ==
    IF s # <<>> /\ Head(s) \in Whitespace THEN TrimStart(Tail(s)) ELSE s

RECURSIVE TrimEnd(_)
TrimEnd(s) ==
    IF s # <<>> /\ s[Len(s)] \in Whitespace
    THEN TrimEnd(SubSeq(s, 1, Len(s) - 1)) ELSE s

\* String.prototype.trim
Trim(s) == TrimEnd(TrimStart(s))

\* String.prototype.includes
Includes(s, sub) ==
    \E k \in 0..(Len(s) - Len(sub)) : SubSeq(s, k + 1, k + Len(sub)) = sub

\* String.prototype.startsWith
StartsWith(s, pre) == Len(s) >= Len(pre) /\ SubSeq(s, 1, Len(pre)) = pre

(***************************************************************************)
(* Map (insertion ordered): a sequence of [key, value].                    *)
(***************************************************************************)
MapHas(m, k) == \E j \in 1..Len(m) : m[j].key = k
MapGet(m, k) ==
    IF MapHas(m, k) THEN m[CHOOSE j \in 1..Len(m) : m[j].key = k].value
    ELSE Undefined
MapSet(m, k, v) ==
    IF MapHas(m, k)
    THEN [j \in 1..Len(m) |-> IF m[j].key = k THEN [key |-> k, value |-> v] ELSE m[j]]
    ELSE Append(m, [key |-> k, value |-> v])
MapKeys(m) == [j \in 1..Len(m) |-> m[j].key]
KeySet(m) == {m[j].key : j \in 1..Len(m)}

(***************************************************************************)
(* Envelopes (mcp-schema.js).  An absent property is Undefined; extra says *)
(* that the object has a property the schema does not name.                *)
(***************************************************************************)
ProtocolVersion == <<"1.0">>

NoAction == [kind |-> "undefined", name |-> Undefined, parameters |-> Undefined,
             extra |-> FALSE]
Action(n, p) == [kind |-> "object", name |-> n, parameters |-> p, extra |-> FALSE]
Request(v, a) == [kind |-> "object", version |-> v, action |-> a, extra |-> FALSE]
NonObjectRequest(k) == [kind |-> k, version |-> Undefined, action |-> NoAction,
                        extra |-> FALSE]

Response(v, s, r, e) ==
    [kind |-> "object", version |-> v, status |-> s, result |-> r, error |-> e,
     extra |-> FALSE]
NoResponse ==
    [kind |-> "undefined", version |-> Undefined, status |-> Undefined,
     result |-> Undefined, error |-> Undefined, extra |-> FALSE]

\* Joi.object(): the first error of the action object, <<>> when there is none
actionSchemaError(a) ==
    IF a.kind = "undefined" THEN <<"\"action\" is required">>
    ELSE IF a.kind # "object" THEN <<"\"action\" must be of type object">>
    ELSE IF a.name.kind = "undefined" THEN <<"\"action.name\" is required">>
    ELSE IF a.name.kind # "string" THEN <<"\"action.name\" must be a string">>
    ELSE IF a.name.str = <<>> THEN <<"\"action.name\" is not allowed to be empty">>
    ELSE IF a.parameters.kind \notin {"undefined", "object"}
         THEN <<"\"action.parameters\" must be of type object">>
    ELSE IF a.extra THEN <<"\"action.extra\" is not allowed">>
    ELSE <<>>

\* requestSchema.validate(request).error.message, <<>> when there is no error
requestSchemaError(request) ==
    IF request.kind = "undefined" THEN <<>>
    ELSE IF request.kind # "object" THEN <<"\"value\" must be of type object">>
    ELSE IF request.version.kind = "undefined" THEN <<"\"version\" is required">>
    ELSE IF request.version # StrV(ProtocolVersion) THEN <<"\"version\" must be [1.0]">>
    ELSE IF actionSchemaError(request.action) # <<>>
         THEN actionSchemaError(request.action)
    ELSE IF request.extra THEN <<"\"extra\" is not allowed">>
    ELSE <<>>

\* responseSchema.validate(response).error.message, <<>> when there is no error
responseSchemaError(response) ==
    IF response.kind = "undefined" THEN <<>>
    ELSE IF response.kind # "object" THEN <<"\"value\" must be of type object">>
    ELSE IF response.version.kind = "undefined" THEN <<"\"version\" is required">>
    ELSE IF response.version # StrV(ProtocolVersion) THEN <<"\"version\" must be [1.0]">>
    ELSE IF response.status.kind = "undefined" THEN <<"\"status\" is required">>
    ELSE IF response.status \notin {StrV(<<"success">>), StrV(<<"error">>)}
         THEN <<"\"status\" must be one of [success, error]">>
    ELSE IF response.status = StrV(<<"success">>) /\ response.result.kind = "undefined"
         THEN <<"\"result\" is required">>
    ELSE IF response.status = StrV(<<"success">>) /\ response.result.kind # "object"
         THEN <<"\"result\" must be of type object">>
    ELSE IF response.status # StrV(<<"success">>) /\ response.result.kind # "undefined"
         THEN <<"\"result\" is not allowed">>
    ELSE IF response.status = StrV(<<"error">>) /\ response.error.kind = "undefined"
         THEN <<"\"error\" is required">>
    ELSE IF response.status = StrV(<<"error">>) /\ response.error.kind # "string"
         THEN <<"\"error\" must be a string">>
    ELSE IF response.status = StrV(<<"error">>) /\ response.error.str = <<>>
         THEN <<"\"error\" is not allowed to be empty">>
    ELSE IF response.status # StrV(<<"error">>) /\ response.error.kind # "undefined"
         THEN <<"\"error\" is not allowed">>
    ELSE IF response.extra THEN <<"\"extra\" is not allowed">>
    ELSE <<>>

\* requestSchema.validate(request).value: a copy of the request in which absent
\* parameters have become {} (line 17), the request itself when it is not valid
requestSchemaValue(request) ==
    IF requestSchemaError(request) = <<>> /\ request.kind = "object"
                                         /\ request.action.parameters.kind = "undefined"
    THEN [request EXCEPT !.action.parameters = ObjV({}, <<>>)]
    ELSE request

\* a validation that writes the defaults into its argument
validatedArgumentNormalised(request) == requestSchemaValue(request)

\* the argument of validateRequest after the call: lines 107-113 read it and
\* assign nothing to it, and validate works on a copy
validatedArgument(request) == request

\* validateRequest: true, or the error message
validateRequest(request) ==
    IF requestSchemaError(request) # <<>> THEN StrV(requestSchemaError(request))
    ELSE TrueV

\* validateResponse: true, or the error message
validateResponse(response) ==
    IF responseSchemaError(response) # <<>> THEN StrV(responseSchemaError(response))
    ELSE TrueV

InvalidResponsePrefix == <<"Nieprawidlowa odpowiedz MCP: ">>
InvalidRequestPrefix == <<"Nieprawidlowe zadanie MCP: ">>

\* createSuccessResponse returning the envelope without validating it
createSuccessResponseUnchecked(result) ==
    Ok(Response(StrV(ProtocolVersion), StrV(<<"success">>), result, Undefined))

\* createSuccessResponse(result): the envelope, or throws when it is not valid
createSuccessResponse(result) ==
    LET response == Response(StrV(ProtocolVersion), StrV(<<"success">>), result, Undefined)
    IN  IF responseSchemaError(response) # <<>>
        THEN Thrown(ErrorV(InvalidResponsePrefix \o responseSchemaError(response)))
        ELSE Ok(response)

\* createErrorResponse(errorMessage): the envelope, or throws when it is not valid
createErrorResponse(errorMessage) ==
    LET response == Response(StrV(ProtocolVersion), StrV(<<"error">>), Undefined, errorMessage)
    IN  IF responseSchemaError(response) # <<>>
        THEN Thrown(ErrorV(InvalidResponsePrefix \o responseSchemaError(response)))
        ELSE Ok(response)

\* createRequest returning the envelope without validating it
createRequestUnchecked(actionName, parameters) ==
    Ok(Request(StrV(ProtocolVersion),
               Action(actionName,
                      IF parameters.kind = "undefined" THEN ObjV({}, <<>>) ELSE parameters)))

\* createRequest(actionName, parameters = {})
createRequest(actionName, parameters) ==
    LET request == Request(StrV(ProtocolVersion),
                           Action(actionName,
                                  IF parameters.kind = "undefined"
                                  THEN ObjV({}, <<>>) ELSE parameters))
    IN  IF requestSchemaError(request) # <<>>
        THEN Thrown(ErrorV(InvalidRequestPrefix \o requestSchemaError(request)))
        ELSE Ok(request)

(***************************************************************************)
(* The tool registry (mcp-server.js).                                      *)
(***************************************************************************)
Registry == [tools |-> tools, toolDescriptions |-> toolDescriptions,
             toolSchemas |-> toolSchemas]
EmptyRegistry == [tools |-> <<>>, toolDescriptions |-> <<>>, toolSchemas |-> <<>>]

NameError == ErrorV(<<"Nazwa narzedzia musi byc niepustym ciagiem znakow">>)
HandlerError == ErrorV(<<"Handler narzedzia musi byc funkcja">>)
DescriptionError == ErrorV(<<"Opis narzedzia musi byc ciagiem znakow">>)
DuplicateError(name) ==
    ErrorV(<<"Narzedzie o nazwie \"">> \o name \o <<"\" jest juz zarejestrowane">>)

\* registerTool without the check for a name that is already registered
registerToolOverwrite(reg, name, handler, description, schema) ==
    IF name.kind # "string" \/ Trim(name.str) = <<>>
    THEN [threw |-> TRUE, error |-> NameError, reg |-> reg]
    ELSE IF handler.kind # "function"
    THEN [threw |-> TRUE, error |-> HandlerError, reg |-> reg]
    ELSE IF description.kind # "string"
    THEN [threw |-> TRUE, error |-> DescriptionError, reg |-> reg]
    ELSE [threw |-> FALSE, error |-> Undefined,
          reg |-> [tools |-> MapSet(reg.tools, name.str, handler),
                   toolDescriptions |-> MapSet(reg.toolDescriptions, name.str, description),
                   toolSchemas |-> IF Truthy(schema)
                                   THEN MapSet(reg.toolSchemas, name.str, schema)
                                   ELSE reg.toolSchemas]]

\* registerTool testing the name without trim(), and the description after the
\* handler is stored
registerToolLateChecks(reg, name, handler, description, schema) ==
    IF name.kind # "string" \/ name.str = <<>>
    THEN [threw |-> TRUE, error |-> NameError, reg |-> reg]
    ELSE IF handler.kind # "function"
    THEN [threw |-> TRUE, error |-> HandlerError, reg |-> reg]
    ELSE IF MapHas(reg.tools, name.str)
    THEN [threw |-> TRUE, error |-> DuplicateError(name.str), reg |-> reg]
    ELSE IF description.kind # "string"
    THEN [threw |-> TRUE, error |-> DescriptionError,
          reg |-> [reg EXCEPT !.tools = MapSet(reg.tools, name.str, handler)]]
    ELSE [threw |-> FALSE, error |-> Undefined,
          reg |-> [tools |-> MapSet(reg.tools, name.str, handler),
                   toolDescriptions |-> MapSet(reg.toolDescriptions, name.str, description),
                   toolSchemas |-> IF Truthy(schema)
                                   THEN MapSet(reg.toolSchemas, name.str, schema)
                                   ELSE reg.toolSchemas]]

\* registerTool(name, handler, description, schema = null) on registry reg:
\* what it throws (if it does) and the registry it leaves
registerTool(reg, name, handler, description, schema) ==
    IF name.kind # "string" \/ Trim(name.str) = <<>>
    THEN [threw |-> TRUE, error |-> NameError, reg |-> reg]
    ELSE IF handler.kind # "function"
    THEN [threw |-> TRUE, error |-> HandlerError, reg |-> reg]
    ELSE IF description.kind # "string"
    THEN [threw |-> TRUE, error |-> DescriptionError, reg |-> reg]
    ELSE IF MapHas(reg.tools, name.str)
    THEN [threw |-> TRUE, error |-> DuplicateError(name.str), reg |-> reg]
    ELSE [threw |-> FALSE, error |-> Undefined,
          reg |-> [tools |-> MapSet(reg.tools, name.str, handler),
                   toolDescriptions |-> MapSet(reg.toolDescriptions, name.str, description),
                   toolSchemas |-> IF Truthy(schema)
                                   THEN MapSet(reg.toolSchemas, name.str, schema)
                                   ELSE reg.toolSchemas]]

SystemPrefix == <<"system.">>
SystemGetTools == SystemPrefix \o <<"getTools">>
SystemPing == SystemPrefix \o <<"ping">>

\* _registerSystemTools
registerSystemTools(reg) ==
    registerTool(
        registerTool(reg, StrV(SystemGetTools), FunV(SystemGetTools),
                     StrV(<<"Pobiera liste dostepnych narzedzi">>), Null).reg,
        StrV(SystemPing), FunV(SystemPing),
        StrV(<<"Sprawdza status serwera">>), Null).reg

\* one catalog line: name, description, schema || null
CatalogEntry(reg, name) ==
    name \o <<"|">> \o ToStr(MapGet(reg.toolDescriptions, name)) \o <<"|">>
    \o (IF Truthy(MapGet(reg.toolSchemas, name))
        THEN MapGet(reg.toolSchemas, name).str ELSE <<"null">>) \o <<";">>

RECURSIVE CatalogText(_, _)
CatalogText(reg, names) ==
    IF names = <<>> THEN <<>>
    ELSE CatalogEntry(reg, Head(names)) \o CatalogText(reg, Tail(names))

\* a catalog that lists every registered name
systemGetToolsUnfiltered(reg) == ObjV({"tools"}, CatalogText(reg, MapKeys(reg.tools)))

\* the system.getTools handler: { tools } without the system. names
systemGetTools(reg) ==
    ObjV({"tools"},
         CatalogText(reg, SelectSeq(MapKeys(reg.tools),
                                    LAMBDA n : ~StartsWith(n, SystemPrefix))))

\* the system.ping handler: { timestamp, status: 'active', version: '1.0' }
systemPing == ObjV({"timestamp", "status", "version"}, <<"active", "1.0">>)

(***************************************************************************)
(* What a registered handler may do when it is invoked.                    *)
(***************************************************************************)
ReturnValues ==
    {ObjV({"answer"}, <<"r1">>), ObjV({}, <<>>), StrV(<<"text">>), NumV(<<"42">>),
     Undefined, Null, ArrV(<<"x">>)}
ThrownValues ==
    {ErrorV(<<"boom">>), ErrorV(<<>>), Null, Undefined, StrV(<<"oops">>),
     ObjV({"code"}, <<"E1">>)}

HandlerOutcomes(reg, handler) ==
    IF handler = FunV(SystemGetTools) THEN {Ok(systemGetTools(reg))}
    ELSE IF handler = FunV(SystemPing) THEN {Ok(systemPing)}
    ELSE {Ok(v) : v \in ReturnValues} \cup {Thrown(e) : e \in ThrownValues}

(***************************************************************************)
(* The dispatcher (mcp-server.js, handleRequest).                          *)
(***************************************************************************)
InvalidRequestMessage == <<"Nieprawidlowe zadanie: ">>
UnknownToolMessage == <<"Nieznane narzedzie: ">>
ToolErrorMessage == <<"Blad podczas wykonywania narzedzia: ">>
UnexpectedErrorMessage == <<"Nieoczekiwany blad: ">>

\* createErrorResponse of prefix + error.message, for a caught error
errorResponseFor(prefix, error) ==
    IF Message(error).threw THEN Thrown(Message(error).val)
    ELSE createErrorResponse(StrV(prefix \o ToStr(Message(error).val)))

\* lines 137-143: the handler is invoked and its outcome wrapped
invokeTool(outcome) ==
    LET wrapped == IF outcome.threw THEN outcome ELSE createSuccessResponse(outcome.val)
    IN  IF wrapped.threw THEN errorResponseFor(ToolErrorMessage, wrapped.val)
        ELSE wrapped

\* whether handleRequest reaches the call of the handler
invokesHandler(reg, request) ==
    /\ validateRequest(request) = TrueV
    /\ request.kind = "object"
    /\ MapHas(reg.tools, request.action.name.str)

\* dispatch reporting an unknown tool without its name
dispatchUnnamed(reg, request, outcome) ==
    IF validateRequest(request) # TrueV
    THEN createErrorResponse(StrV(InvalidRequestMessage \o ToStr(validateRequest(request))))
    ELSE IF request.kind # "object" THEN Thrown(TypeErrorOf(request))
    ELSE IF ~MapHas(reg.tools, request.action.name.str)
    THEN createErrorResponse(StrV(UnknownToolMessage))
    ELSE invokeTool(outcome)

\* a dispatch that looks the tool up before it validates the request
dispatchLookupFirst(reg, request, outcome) ==
    IF /\ request.kind = "object"
       /\ request.action.kind = "object"
       /\ request.action.name.kind = "string"
       /\ MapHas(reg.tools, request.action.name.str)
    THEN invokeTool(outcome)
    ELSE IF validateRequest(request) # TrueV
    THEN createErrorResponse(StrV(InvalidRequestMessage \o ToStr(validateRequest(request))))
    ELSE IF request.kind # "object" THEN Thrown(TypeErrorOf(request))
    ELSE createErrorResponse(StrV(UnknownToolMessage \o request.action.name.str))

\* lines 120-143: the body of the outer try
dispatch(reg, request, outcome) ==
    IF validateRequest(request) # TrueV
    THEN createErrorResponse(StrV(InvalidRequestMessage \o ToStr(validateRequest(request))))
    ELSE IF request.kind # "object" THEN Thrown(TypeErrorOf(request))
    ELSE IF ~MapHas(reg.tools, request.action.name.str)
    THEN createErrorResponse(StrV(UnknownToolMessage \o request.action.name.str))
    ELSE invokeTool(outcome)

\* handleRequest without the outer catch
handleRequestNoOuterCatch(reg, request, outcome) ==
    LET final == dispatch(reg, request, outcome)
    IN  [rejected |-> final.threw,
         response |-> IF final.threw THEN NoResponse ELSE final.val,
         error |-> IF final.threw THEN final.val ELSE Undefined,
         invoked |-> IF invokesHandler(reg, request)
                     THEN <<[handler |-> MapGet(reg.tools, request.action.name.str),
                             parameters |-> request.action.parameters,
                             outcome |-> outcome]>>
                     ELSE <<>>]

\* handleRequest(request): [rejected, response, error, invoked], where outcome is
\* what the handler does if it is invoked, and invoked the handler calls made
handleRequest(reg, request, outcome) ==
    LET body == dispatch(reg, request, outcome)
        final == IF body.threw THEN errorResponseFor(UnexpectedErrorMessage, body.val)
                 ELSE body
    IN  [rejected |-> final.threw,
         response |-> IF final.threw THEN NoResponse ELSE final.val,
         error |-> IF final.threw THEN final.val ELSE Undefined,
         invoked |-> IF invokesHandler(reg, request)
                     THEN <<[handler |-> MapGet(reg.tools, request.action.name.str),
                             parameters |-> request.action.parameters,
                             outcome |-> outcome]>>
                     ELSE <<>>]

(***************************************************************************)
(* The client (mcp-client.js, callTool).                                   *)
(***************************************************************************)
HttpErrorMessage == <<"Blad HTTP ", "500", ": ", "Internal Server Error">>
NoServerResponseMessage == <<"Brak odpowiedzi serwera: ", "timeout">>
ServerErrorMessage == <<"Blad serwera MCP: ">>

\* what axios.post does: the server's envelope arrives ("ok"), the server answers
\* with an error status ("status"), or nothing arrives ("none")
HttpOutcomes == {"ok", "status", "none"}

\* an unwrapping that trusts the envelope received
unwrapResponseUnchecked(mcpResponse) == Ok(mcpResponse.result)

\* lines 55-67: the envelope received is validated and unwrapped
unwrapResponse(mcpResponse) ==
    IF validateResponse(mcpResponse) # TrueV
    THEN Thrown(ErrorV(InvalidResponsePrefix \o ToStr(validateResponse(mcpResponse))))
    ELSE IF mcpResponse.kind # "object" THEN Thrown(TypeErrorOf(mcpResponse))
    ELSE IF mcpResponse.status = StrV(<<"error">>)
    THEN Thrown(ErrorV(ServerErrorMessage \o ToStr(mcpResponse.error)))
    ELSE Ok(mcpResponse.result)

\* what axios.post does with the request: kind is one of HttpOutcomes, data the
\* body received when kind is "ok"
Transport(kind, data) == [kind |-> kind, data |-> data]

\* the outcome of callTool: what it returns or throws, and whether the request
\* was handed to axios.post
Sent(r) == [threw |-> r.threw, val |-> r.val, sent |-> TRUE]
NotSent(r) == [threw |-> r.threw, val |-> r.val, sent |-> FALSE]

\* callTool(actionName, parameters), lines 35-81, the transport doing t
callToolOver(actionName, parameters, t) ==
    LET request == createRequest(actionName, parameters)
    IN  IF request.threw THEN NotSent(request)
        ELSE IF t.kind = "status" THEN Sent(Thrown(ErrorV(HttpErrorMessage)))
        ELSE IF t.kind = "none" THEN Sent(Thrown(ErrorV(NoServerResponseMessage)))
        ELSE Sent(unwrapResponse(t.data))

\* callTool(actionName, parameters) against the server with registry reg, where
\* http is what the transport does and outcome what the handler does if invoked
callTool(reg, actionName, parameters, http, outcome) ==
    LET request == createRequest(actionName, parameters)
        served == handleRequest(reg, request.val, outcome)
    IN  IF request.threw THEN callToolOver(actionName, parameters, Transport(http, NoResponse))
        ELSE IF http = "ok" /\ served.rejected
        THEN callToolOver(actionName, parameters, Transport("none", NoResponse))
        ELSE callToolOver(actionName, parameters, Transport(http, served.response))

(***************************************************************************)
(* Text (queries, completions): sequences of words.                        *)
(***************************************************************************)
\* String.prototype.toLowerCase, word by word
LowerWord(w) ==
    CASE w = "ZNAJDZ" -> "znajdz"
      [] w = "Uruchom" -> "uruchom"
      [] OTHER -> w
ToLowerCase(s) == [k \in 1..Len(s) |-> LowerWord(s[k])]

\* what is left of word w when the text kw is cut out of it: w contains kw as
\* a substring when the pair is listed or w = kw
Remainder(w, kw) ==
    IF w = kw THEN <<>>
    ELSE IF w = "przeanalizuj" /\ kw = "analizuj" THEN <<"prze">>
    ELSE <<w>>
WordIncludes(w, kw) == Remainder(w, kw) # <<w>>

\* s.includes(kw), kw a single word
TextIncludes(s, kw) == \E k \in 1..Len(s) : WordIncludes(s[k], kw)

\* s.replace(new RegExp(kw, 'i'), ''): the first occurrence, whatever its case
ReplaceFirst(s, kw) ==
    IF TextIncludes(ToLowerCase(s), kw)
    THEN LET k == CHOOSE k \in 1..Len(s) :
                    /\ WordIncludes(LowerWord(s[k]), kw)
                    /\ \A j \in 1..(k - 1) : ~WordIncludes(LowerWord(s[j]), kw)
         IN  SubSeq(s, 1, k - 1) \o Remainder(LowerWord(s[k]), kw) \o SubSeq(s, k + 1, Len(s))
    ELSE s

RECURSIVE ReplaceAll(_, _)
ReplaceAll(s, kws) ==
    IF kws = <<>> THEN s ELSE ReplaceAll(ReplaceFirst(s, Head(kws)), Tail(kws))

(***************************************************************************)
(* The agent (mcp-agent.js): analysis.                                     *)
(***************************************************************************)
\* the keyword table, in the order of Object.entries
KeywordTable ==
    << [type |-> <<"analyze">>, words |-> <<"analizuj", "przeanalizuj", "zbadaj", "sprawdz">>],
       [type |-> <<"search">>, words |-> <<"znajdz", "wyszukaj", "poszukaj">>],
       [type |-> <<"generate">>, words |-> <<"wygeneruj", "stworz", "utworz", "napisz">>],
       [type |-> <<"execute">>, words |-> <<"uruchom", "wykonaj", "odpal">> ] >>

RowMatches(row, queryLower) ==
    \E k \in 1..Len(row.words) : TextIncludes(queryLower, row.words[k])

\* the type of the first row with a keyword in the lowercased query, or unknown
keywordType(query) ==
    LET queryLower == ToLowerCase(query)
    IN  IF \E r \in 1..Len(KeywordTable) : RowMatches(KeywordTable[r], queryLower)
        THEN KeywordTable[CHOOSE r \in 1..Len(KeywordTable) :
                            /\ RowMatches(KeywordTable[r], queryLower)
                            /\ \A q \in 1..(r - 1) : ~RowMatches(KeywordTable[q], queryLower)].type
        ELSE <<"unknown">>

keywordsOf(type) ==
    KeywordTable[CHOOSE r \in 1..Len(KeywordTable) : KeywordTable[r].type = type].words

TaskAnalysis(type, targetContent, query) ==
    [type |-> type, targetContent |-> targetContent, originalQuery |-> query]
NoAnalysis == TaskAnalysis(Undefined, Undefined, <<>>)

\* lines 146-172: the keyword classifier of the Claude agent's catch block
keywordFallback(query) ==
    TaskAnalysis(StrV(keywordType(query)), StrV(query), query)

\* lines 631-667: _analyzeUserQuery of the rule-based agent
analyzeByRules(query) ==
    TaskAnalysis(StrV(keywordType(query)),
                 IF keywordType(query) # <<"unknown">>
                 THEN StrV(Trim(ReplaceAll(query, keywordsOf(keywordType(query)))))
                 ELSE StrV(query),
                 query)

\* What the completion capability answers to the analysis prompt:
\*   failed:  the call fails (or the answer has no text)
\*   json:    the text parses; parsed says what JSON.parse returns (null, or an
\*            object with the type and targetContent given, Undefined if absent)
\*   text:    the text does not parse; type and targetContent are what the two
\*            patterns capture (Undefined when a pattern finds nothing)
AnalysisCompletion(k, parsed, type, targetContent) ==
    [kind |-> k, parsed |-> parsed, type |-> type, targetContent |-> targetContent]

\* lines 116-172: _analyzeUserQuery of the Claude agent
analyzeByCompletion(query, completion) ==
    IF completion.kind = "failed" THEN keywordFallback(query)
    ELSE IF completion.kind = "json"
    THEN IF completion.parsed = "null" THEN keywordFallback(query)
         ELSE TaskAnalysis(completion.type, completion.targetContent, query)
    ELSE TaskAnalysis(IF completion.type.kind = "undefined"
                      THEN StrV(<<"unknown">>) ELSE completion.type,
                      IF completion.targetContent.kind = "undefined"
                      THEN StrV(query) ELSE completion.targetContent,
                      query)

analyzeUserQuery(v, query, completion) ==
    IF v = "claude" THEN analyzeByCompletion(query, completion)
    ELSE analyzeByRules(query)

(***************************************************************************)
(* The agent: planning.                                                    *)
(***************************************************************************)
Step(action, parameters) == [action |-> action, parameters |-> parameters]

\* a plan: kind is what the value is ("object", or "null" for a completion
\* that parses to null), stepsKind what its steps property is ("array",
\* "undefined" when absent, "object" for a value without a length)
Plan(k, sk, steps) == [kind |-> k, stepsKind |-> sk, steps |-> steps]
PlanOf(steps) == Plan("object", "array", steps)
NoPlan == Plan("undefined", "undefined", <<>>)

\* the code fence (three backquotes)
Fence == "<fence>"
LanguageWords == {"javascript", "js"}

\* targetContent.match(/<fence>(?:javascript|js)?(.*?)<fence>/s): the text between the
\* first fence (and the language word after it) and the next fence, or <<>>
\* with found = FALSE
codeMatch(s) ==
    LET fences == {k \in 1..Len(s) : s[k] = Fence}
    IN  IF Cardinality(fences) < 2 THEN [found |-> FALSE, code |-> <<>>]
        ELSE LET a == CHOOSE k \in fences : \A j \in fences : k <= j
                 from == IF a + 1 <= Len(s) /\ s[a + 1] \in LanguageWords
                         THEN a + 2 ELSE a + 1
                 b == CHOOSE k \in fences : k >= from /\ \A j \in fences : j >= from => k <= j
             IN  [found |-> TRUE, code |-> SubSeq(s, from, b - 1)]

\* a rule table with the default rule only
rulePlanDefault(v, type, targetContent) ==
    Ok(PlanOf(<<Step(StrV(<<"analyzeText">>), ObjV({"text"}, ToStr(targetContent)))>>))

\* the rule table of lines 237-277 and 288-328 (Claude agent) and of lines
\* 684-730 (rule-based agent): the plan, or the TypeError of reading includes of
\* a targetContent that is no string
rulePlan(v, type, targetContent) ==
    IF type = StrV(<<"analyze">>)
    THEN Ok(PlanOf(IF v = "claude"
                   THEN <<Step(StrV(<<"analyzeText">>), ObjV({"text"}, ToStr(targetContent)))>>
                   ELSE <<Step(StrV(<<"analyzeText">>), ObjV({"text"}, ToStr(targetContent))),
                          Step(StrV(<<"extractEntities">>), ObjV({"text"}, ToStr(targetContent)))>>))
    ELSE IF type = StrV(<<"search">>)
    THEN Ok(PlanOf(IF v = "claude"
                   THEN <<Step(StrV(<<"searchWeb">>), ObjV({"query"}, ToStr(targetContent)))>>
                   ELSE <<Step(StrV(<<"searchRepositories">>),
                               ObjV({"query", "perPage"}, ToStr(targetContent)))>>))
    ELSE IF type = StrV(<<"generate">>)
    THEN Ok(PlanOf(<<Step(StrV(<<"generatePlan">>),
                          ObjV({"task", "requirements"}, ToStr(targetContent)))>>))
    ELSE IF type = StrV(<<"execute">>)
    THEN IF targetContent.kind # "string" THEN Thrown(TypeErrorOf(targetContent))
         ELSE IF \E w \in LanguageWords : TextIncludes(targetContent.str, w)
         THEN Ok(PlanOf(<<Step(StrV(<<"executeCode">>),
                               ObjV({"language", "code"},
                                    IF codeMatch(targetContent.str).found
                                    THEN Trim(codeMatch(targetContent.str).code)
                                    ELSE targetContent.str))>>))
         ELSE Ok(PlanOf(<<>>))
    ELSE Ok(PlanOf(<<Step(StrV(<<"analyzeText">>), ObjV({"text"}, ToStr(targetContent)))>>))

\* What the completion capability answers to the planning prompt:
\*   failed:  the call fails (or the answer has no text)
\*   json:    the text (its part from the first { to the last }) parses to plan
\*   text:    it does not parse
\*   content: the answer is the text content, a sequence of tokens
PlanCompletion(k, plan) == [kind |-> k, plan |-> plan, content |-> <<>>]
PlanText(content) == [kind |-> "content", plan |-> NoPlan, content |-> content]

\* the tokens that stand for a "steps": [...] member, and the steps they list
StepsTokens == {"steps:[]", "steps:[analyzeText]"}
stepsOf(token) ==
    IF token = "steps:[analyzeText]"
    THEN <<Step(StrV(<<"analyzeText">>), ObjV({"text"}, <<"t1">>))>>
    ELSE <<>>

\* the first block of content with balanced braces, or content when it has none
firstBalancedBlock(content) ==
    LET opens == {k \in 1..Len(content) : content[k] = "{"}
        depth(a, k) == Cardinality({j \in a..k : content[j] = "{"})
                       - Cardinality({j \in a..k : content[j] = "}"})
    IN  IF opens = {} THEN content
        ELSE LET a == CHOOSE k \in opens : \A j \in opens : k <= j
                 ends == {k \in a..Len(content) : depth(a, k) = 0}
             IN  IF ends = {} THEN content
                 ELSE SubSeq(content, a, CHOOSE k \in ends : \A j \in ends : k <= j)

\* lines 227-228: content.match(/\{[\s\S]*\}/), the quantifier being greedy: the
\* text from the first { to the last } after it, or content when there is none
jsonMatch(content) ==
    LET opens == {k \in 1..Len(content) : content[k] = "{"}
        a == CHOOSE k \in opens : \A j \in opens : k <= j
        closes == {k \in 1..Len(content) : content[k] = "}" /\ k > a}
    IN  IF opens = {} \/ closes = {} THEN content
        ELSE SubSeq(content, a, CHOOSE k \in closes : \A j \in closes : k >= j)

\* line 229: JSON.parse(jsonStr) of the texts considered: null, an object
\* without members, an object with a steps member; anything else is a
\* SyntaxError
parseJson(jsonStr) ==
    IF jsonStr = <<"null">> THEN Ok(Plan("null", "undefined", <<>>))
    ELSE IF jsonStr = <<"{", "}">> THEN Ok(Plan("object", "undefined", <<>>))
    ELSE IF Len(jsonStr) = 3 /\ jsonStr[1] = "{" /\ jsonStr[3] = "}"
                             /\ jsonStr[2] \in StepsTokens
    THEN Ok(PlanOf(stepsOf(jsonStr[2])))
    ELSE Thrown(ErrorV(<<"SyntaxError">>))

\* _generatePlan: lines 181-332 (Claude agent), 675-733 (rule-based agent)
generatePlan(v, taskAnalysis, completion) ==
    IF v = "claude" /\ completion.kind = "json" THEN Ok(completion.plan)
    ELSE IF v = "claude" /\ completion.kind = "content"
                        /\ ~parseJson(jsonMatch(completion.content)).threw
    THEN parseJson(jsonMatch(completion.content))
    ELSE rulePlan(v, taskAnalysis.type, taskAnalysis.targetContent)

(***************************************************************************)
(* The agent: plan execution.  A frame is the state of one processUserQuery *)
(* call; pc is the await it is suspended at.                                *)
(***************************************************************************)
Slots == 1..MaxSlots

IdleFrame ==
    [pc |-> "idle", userQuery |-> <<>>, taskAnalysis |-> NoAnalysis, plan |-> NoPlan,
     i |-> 0, retries |-> 0, success |-> FALSE, stepResult |-> Undefined,
     error |-> Undefined, results |-> <<>>, returned |-> Undefined, log |-> <<>>,
     fault |-> Undefined,
     analysisContent |-> AnalysisCompletion("none", "null", Undefined, Undefined),
     planContent |-> PlanCompletion("none", NoPlan),
     synthesisContent |-> [kind |-> "none", text |-> Undefined],
     delays |-> <<>>]

Event(e, k) == [ev |-> e, step |-> k]

\* a recording that leaves failed steps out
pushResultOnSuccess(c) ==
    IF c.success
    THEN [c EXCEPT !.results = Append(@, [action |-> c.plan.steps[c.i + 1].action,
                                          parameters |-> c.plan.steps[c.i + 1].parameters,
                                          result |-> c.stepResult]),
                   !.i = @ + 1]
    ELSE [c EXCEPT !.i = @ + 1]

\* lines 369-373: the result of the step is recorded
pushResult(c) ==
    [c EXCEPT !.results = Append(@, [action |-> c.plan.steps[c.i + 1].action,
                                     parameters |-> c.plan.steps[c.i + 1].parameters,
                                     result |-> c.stepResult]),
              !.i = @ + 1]

\* a loop condition that allows one attempt more
retryConditionInclusive(c, max) == ~c.success /\ c.retries <= max

\* line 354: the loop condition
retryCondition(c, max) == ~c.success /\ c.retries < max

\* lines 343-376 from the top of the for loop, up to the next await: the frame
\* with pc = "callTool" when a tool is invoked, "synthesize" when the loop is over
RECURSIVE forLoop(_, _)
forLoop(c, max) ==
    IF c.i >= Len(c.plan.steps) THEN [c EXCEPT !.pc = "synthesize"]
    ELSE LET c0 == [c EXCEPT !.retries = 0, !.success = FALSE, !.stepResult = Undefined]
         IN  IF retryCondition(c0, max)
             THEN [c0 EXCEPT !.pc = "callTool", !.log = Append(@, Event("invoke", c.i))]
             ELSE forLoop(pushResult(c0), max)

\* lines 354-374 from the loop condition, after an attempt or a delay
whileLoop(c, max) ==
    IF retryCondition(c, max)
    THEN [c EXCEPT !.pc = "callTool", !.log = Append(@, Event("invoke", c.i))]
    ELSE forLoop(pushResult(c), max)

\* a wait that grows with the number of failed attempts
retryDelayBackoff(retries) == RetryDelayMs * retries

\* line 364: the time setTimeout is given after the failed attempt number retries
retryDelay(retries) == RetryDelayMs

\* a handling of the attempt that notes the failure one attempt too late
afterCallToolLateError(c, r, max) ==
    IF ~r.threw
    THEN whileLoop([c EXCEPT !.stepResult = r.val, !.success = TRUE,
                             !.log = Append(@, Event("ok", c.i))], max)
    ELSE IF c.retries + 1 > max
    THEN whileLoop([c EXCEPT !.retries = @ + 1, !.error = r.val,
                             !.stepResult = ObjV({"error"}, ToStr(Message(r.val).val)),
                             !.log = Append(@, Event("failed", c.i))], max)
    ELSE [c EXCEPT !.retries = @ + 1, !.error = r.val, !.pc = "delay",
                   !.delays = Append(@, retryDelay(c.retries + 1)),
                   !.log = Append(Append(@, Event("failed", c.i)), Event("delay", c.i))]

\* a handling of the attempt that starts the retry wait and goes on to the
\* next step without waiting for it
afterCallToolMoveOn(c, r, max) ==
    IF ~r.threw
    THEN whileLoop([c EXCEPT !.stepResult = r.val, !.success = TRUE,
                             !.log = Append(@, Event("ok", c.i))], max)
    ELSE IF c.retries + 1 >= max
    THEN whileLoop([c EXCEPT !.retries = @ + 1, !.error = r.val,
                             !.stepResult = ObjV({"error"}, ToStr(Message(r.val).val)),
                             !.log = Append(@, Event("failed", c.i))], max)
    ELSE forLoop(pushResult([c EXCEPT !.retries = @ + 1, !.error = r.val,
                                      !.delays = Append(@, retryDelay(c.retries + 1)),
                                      !.log = Append(Append(@, Event("failed", c.i)),
                                                     Event("delay", c.i))]), max)

\* lines 356-366: callTool has returned or failed with r
afterCallTool(c, r, max) ==
    IF ~r.threw
    THEN whileLoop([c EXCEPT !.stepResult = r.val, !.success = TRUE,
                             !.log = Append(@, Event("ok", c.i))], max)
    ELSE IF c.retries + 1 >= max
    THEN whileLoop([c EXCEPT !.retries = @ + 1, !.error = r.val,
                             !.stepResult = ObjV({"error"}, ToStr(Message(r.val).val)),
                             !.log = Append(@, Event("failed", c.i))], max)
    ELSE [c EXCEPT !.retries = @ + 1, !.error = r.val, !.pc = "delay",
                   !.delays = Append(@, retryDelay(c.retries + 1)),
                   !.log = Append(Append(@, Event("failed", c.i)), Event("delay", c.i))]

\* an execution that refuses a plan without steps
executePlanNonEmpty(c, max) ==
    IF c.plan.kind # "object" THEN Thrown(TypeErrorOf([kind |-> c.plan.kind]))
    ELSE IF c.plan.stepsKind = "undefined" THEN Thrown(TypeErrorOf(Undefined))
    ELSE IF c.plan.stepsKind # "array"
    THEN Ok([c EXCEPT !.i = 0, !.results = <<>>, !.pc = "synthesize"])
    ELSE IF c.plan.steps = <<>> THEN Thrown(ErrorV(<<"empty plan">>))
    ELSE Ok(forLoop([c EXCEPT !.i = 0, !.results = <<>>], max))

\* an execution that hands the plan to synthesis without running it
executePlanSkipped(c, max) ==
    IF c.plan.kind # "object" THEN Thrown(TypeErrorOf([kind |-> c.plan.kind]))
    ELSE IF c.plan.stepsKind = "undefined" THEN Thrown(TypeErrorOf(Undefined))
    ELSE Ok([c EXCEPT !.i = 0, !.results = <<>>, !.pc = "synthesize"])

\* lines 340-343: _executePlan is entered; reading plan.steps.length may throw
executePlan(c, max) ==
    IF c.plan.kind # "object" THEN Thrown(TypeErrorOf([kind |-> c.plan.kind]))
    ELSE IF c.plan.stepsKind = "undefined" THEN Thrown(TypeErrorOf(Undefined))
    ELSE IF c.plan.stepsKind # "array"
    THEN Ok([c EXCEPT !.i = 0, !.results = <<>>, !.pc = "synthesize"])
    ELSE Ok(forLoop([c EXCEPT !.i = 0, !.results = <<>>], max))

(***************************************************************************)
(* The agent: synthesis.                                                   *)
(***************************************************************************)
\* JSON.stringify(value, null, 2) inside a template literal
Stringify(v) == IF v.kind = "undefined" THEN <<"undefined">> ELSE v.str

HasProperty(v, key) == v.kind = "object" /\ key \in v.keys

\* result.result && result.result.error
HasError(result) == HasProperty(result.result, "error") /\ result.result.str # <<>>

\* the actions whose rendering reads a property of result.result
PropertyOfAction ==
    [analyzeText |-> "statistics", extractEntities |-> "entities",
     searchRepositories |-> "items", generatePlan |-> "plan"]
FormattedActions == {<<a>> : a \in DOMAIN PropertyOfAction}

\* lines 434-492 (and 794-851): one step of the deterministic rendering
renderResult(result) ==
    LET header == <<"### ">> \o ToStr(result.action) \o <<":">>
        formatted == result.action.kind = "string" /\ result.action.str \in FormattedActions
    IN  IF HasError(result)
        THEN Ok(header \o <<"Wystapil blad: ">> \o result.result.str)
        ELSE IF formatted /\ result.result.kind \in {"undefined", "null"}
        THEN Thrown(TypeErrorOf(result.result))
        ELSE IF formatted /\ HasProperty(result.result, PropertyOfAction[result.action.str[1]])
        THEN Ok(header \o <<PropertyOfAction[result.action.str[1]], ": ">> \o result.result.str)
        ELSE IF result.action = StrV(<<"executeCode">>)
        THEN Ok(header \o <<"Wynik wykonania kodu: ">> \o Stringify(result.result))
        ELSE Ok(header \o <<"Wynik: ">> \o Stringify(result.result))

RECURSIVE renderFrom(_, _)
renderFrom(results, text) ==
    IF results = <<>> THEN Ok(StrV(text))
    ELSE IF renderResult(Head(results)).threw THEN renderResult(Head(results))
    ELSE renderFrom(Tail(results), text \o renderResult(Head(results)).val)

\* lines 431-495 (and 791-854): the deterministic rendering of the results
renderResults(results) == renderFrom(results, <<"Oto wyniki:">>)

\* What the completion capability answers to the synthesis prompt: failed, or
\* the text of the answer (Undefined when the answer has no text)
SynthesisCompletion(k, text) == [kind |-> k, text |-> text]

\* _generateUserResponse: lines 386-497 (Claude agent), 787-855 (rule-based agent)
generateUserResponse(v, results, completion) ==
    IF v = "claude" /\ completion.kind # "failed" THEN Ok(completion.text)
    ELSE renderResults(results)

(***************************************************************************)
(* The agent: the conversation log.                                        *)
(***************************************************************************)
Turn(role, content, timestamp) ==
    [role |-> role, content |-> content, timestamp |-> timestamp]

\* a log that makes room by dropping the turn before the new one
addToConversationKeepOldest(log, role, content, t) ==
    LET pushed == Append(log, Turn(role, content, t))
    IN  IF Len(pushed) > MaxConversations
        THEN SubSeq(pushed, 1, Len(pushed) - 2) \o <<pushed[Len(pushed)]>>
        ELSE pushed

\* _addToConversation(role, content), Date.now() being t
addToConversation(log, role, content, t) ==
    LET pushed == Append(log, Turn(role, content, t))
    IN  IF Len(pushed) > MaxConversations THEN Tail(pushed) ELSE pushed

\* the constructor's this.maxRetries = options.maxRetries || 3
RetriesOption(given, value) == [given |-> given, value |-> value]
constructMaxRetries(option) ==
    IF option.given /\ option.value # 0 THEN option.value ELSE DefaultMaxRetries

ProcessingErrorMessage == <<"Wystapil blad podczas przetwarzania zapytania: ">>

\* a catch that passes the fault on to the caller
failQueryRethrow(c, error) == [c EXCEPT !.pc = "rejected", !.fault = error]

\* lines 85-89: the catch of processUserQuery, error being what was thrown; the
\* call ends rejected when reading error.message throws
failQuery(c, error) ==
    IF Message(error).threw
    THEN [c EXCEPT !.pc = "rejected", !.fault = Message(error).val]
    ELSE [c EXCEPT !.pc = "returned", !.fault = error,
                   !.returned = StrV(ProcessingErrorMessage \o ToStr(Message(error).val))]

(***************************************************************************)
(* The code tools (tools/code-tools.js): executeCode and safeEval.  The    *)
(* code evaluated is described by what it does: the lines it logs while    *)
(* eval runs, whether its value is a promise, and the lines it logs later, *)
(* while the promise is pending.  A line is tagged with the run whose code *)
(* logged it.                                                              *)
(***************************************************************************)
Runs == 1..MaxRuns
NativeLog == [kind |-> "native", run |-> 0]
\* the arrow function of lines 26-30 created by run id
CaptureOf(id) == [kind |-> "capture", run |-> id]

Code(sync, promise, later) == [sync |-> sync, promise |-> promise, later |-> later]
IdleRun ==
    [pc |-> "idle", code |-> Code(0, FALSE, 0), originalConsoleLog |-> NativeLog,
     logs |-> <<>>, left |-> 0, threw |-> FALSE, output |-> <<>>]
IdleSandbox == [consoleLog |-> NativeLog, stdout |-> <<>>, runs |-> [id \in Runs |-> IdleRun]]

\* console.log(line) called by the code of run id: the function bound to
\* console.log at that moment receives the line
consoleLogCalled(sb, id) ==
    IF sb.consoleLog.kind = "native" THEN [sb EXCEPT !.stdout = Append(@, id)]
    ELSE [sb EXCEPT !.runs[sb.consoleLog.run].logs = Append(@, id)]

RECURSIVE logLines(_, _, _)
logLines(sb, id, n) == IF n = 0 THEN sb ELSE logLines(consoleLogCalled(sb, id), id, n - 1)

\* lines 45-51 and 86-91: console.log is given back and the output is built
restoreAndReturn(sb, id) ==
    [sb EXCEPT !.consoleLog = sb.runs[id].originalConsoleLog,
               !.runs[id].pc = "done",
               !.runs[id].output = sb.runs[id].logs]

\* executeCode(params), lines 68-84 and 12-39: up to the await of the promise,
\* or to the end when the value of the code is no promise
executeCodeCalled(sb, id, language, code) ==
    IF language \notin LanguageWords
    THEN [sb EXCEPT !.runs[id].pc = "done", !.runs[id].threw = TRUE]
    ELSE LET saved == [sb EXCEPT !.runs[id].originalConsoleLog = sb.consoleLog,
                                 !.runs[id].code = code,
                                 !.runs[id].left = code.later,
                                 !.consoleLog = CaptureOf(id)]
             evaluated == logLines(saved, id, code.sync)
         IN  IF code.promise THEN [evaluated EXCEPT !.runs[id].pc = "pending"]
             ELSE restoreAndReturn(evaluated, id)

(***************************************************************************)
(* The server: construction, registerTool and handleRequest.               *)
(***************************************************************************)
NamePool == <<"toolA", "toolB", "toolC", "toolD">>
UserNames == {<<NamePool[k]>> : k \in 1..MaxUserTools}

\* the arguments registerTool is called with: two well-formed registrations per
\* name (the second with a schema and an empty description), and registrations
\* with a name, a handler or a description of the wrong kind
NameArgs ==
    {StrV(n) : n \in UserNames}
    \cup {StrV(SystemPing), StrV(SystemGetTools), StrV(<<>>), StrV(<<" ", " ">>),
          NumV(<<"7">>), Undefined}
RegisterArgs ==
    {<<name, FunV(<<"h1">>), StrV(<<"d1">>), Null>> : name \in NameArgs}
    \cup {<<name, FunV(<<"h2">>), StrV(<<>>), ObjV({"type"}, <<"s1">>)>> : name \in NameArgs}
    \cup {<<StrV(<<"toolA">>), handler, StrV(<<"d1">>), ObjV({"type"}, <<"s1">>)>> :
            handler \in {StrV(<<"h1">>), Undefined}}
    \cup {<<StrV(<<"toolA">>), FunV(<<"h1">>), description, ObjV({"type"}, <<"s1">>)>> :
            description \in {NumV(<<"7">>), Undefined}}

\* the requests handleRequest is called with
RequestNames == UserNames \cup {SystemPing, SystemGetTools, <<"doesNotExist">>, <<" ">>}
SomeParameters == ObjV({"text"}, <<"p1">>)
\* {version: "1.0", action: {name: "system.ping", parameters: {}}}
PingRequest == Request(StrV(ProtocolVersion), Action(StrV(SystemPing), ObjV({}, <<>>)))
ValidRequests ==
    {Request(StrV(ProtocolVersion), Action(StrV(n), p)) :
        n \in RequestNames, p \in {SomeParameters, Undefined}}
    \cup {PingRequest}
MalformedRequests ==
    {NonObjectRequest(k) : k \in {"undefined", "null", "string", "array"}}
    \cup {Request(v, Action(StrV(n), SomeParameters)) :
            v \in {Undefined, StrV(<<"2.0">>), NumV(ProtocolVersion)},
            n \in {SystemPing, <<"toolA">>}}
    \cup {Request(StrV(ProtocolVersion), a) :
            a \in {NoAction, [NoAction EXCEPT !.kind = "string"],
                   Action(Undefined, SomeParameters),
                   Action(StrV(<<>>), SomeParameters),
                   Action(NumV(<<"7">>), SomeParameters),
                   Action(StrV(<<"toolA">>), Null),
                   Action(StrV(<<"toolA">>), StrV(<<"p1">>)),
                   [Action(StrV(<<"toolA">>), SomeParameters) EXCEPT !.extra = TRUE]}}
    \cup {[Request(StrV(ProtocolVersion), Action(StrV(<<"toolA">>), SomeParameters))
            EXCEPT !.extra = TRUE]}
Requests == ValidRequests \cup MalformedRequests

NoCall ==
    [op |-> "none", args |-> <<>>, request |-> NonObjectRequest("undefined"),
     threw |-> FALSE, error |-> Undefined, response |-> NoResponse, invoked |-> <<>>,
     returned |-> Undefined, sent |-> FALSE, http |-> "none"]

\* new MCPServer(): the registry after _registerSystemTools
InitServer ==
    /\ tools = registerSystemTools(EmptyRegistry).tools
    /\ toolDescriptions = registerSystemTools(EmptyRegistry).toolDescriptions
    /\ toolSchemas = registerSystemTools(EmptyRegistry).toolSchemas
    /\ lastCall = NoCall
    /\ variant = "claude"
    /\ maxRetries = DefaultMaxRetries
    /\ conversations = <<>>
    /\ now = 0
    /\ call = [s \in Slots |-> IdleFrame]
    /\ sandbox = IdleSandbox

\* server.registerTool(name, handler, description, schema)
RegisterTool ==
    \E args \in RegisterArgs :
        LET name == args[1]
            handler == args[2]
            description == args[3]
            schema == args[4]
            r == registerTool(Registry, name, handler, description, schema)
        IN  /\ tools' = r.reg.tools
            /\ toolDescriptions' = r.reg.toolDescriptions
            /\ toolSchemas' = r.reg.toolSchemas
            /\ lastCall' = [NoCall EXCEPT !.op = "registerTool",
                                          !.args = <<name, handler, description, schema>>,
                                          !.threw = r.threw,
                                          !.error = r.error]
            /\ UNCHANGED <<agentVars, sandbox>>

\* server.handleRequest(request), the handler doing any of the things it may do
HandleRequest ==
    \E request \in Requests :
        \E outcome \in (IF invokesHandler(Registry, request)
                        THEN HandlerOutcomes(Registry,
                                             MapGet(tools, request.action.name.str))
                        ELSE {Ok(Undefined)}) :
            LET r == handleRequest(Registry, request, outcome)
            IN  /\ lastCall' = [NoCall EXCEPT !.op = "handleRequest",
                                              !.request = request,
                                              !.threw = r.rejected,
                                              !.error = r.error,
                                              !.response = r.response,
                                              !.invoked = r.invoked]
                /\ UNCHANGED <<tools, toolDescriptions, toolSchemas>>
                /\ UNCHANGED <<agentVars, sandbox>>

vars == <<tools, toolDescriptions, toolSchemas, lastCall,
          variant, maxRetries, conversations, now, call, sandbox>>

NextServer == RegisterTool \/ HandleRequest

SpecServer == InitServer /\ [][NextServer]_vars

(***************************************************************************)
(* The agent on the example server (examples/claude-agent.js): the actions *)
(* of processUserQuery, one per stretch of code between two awaits.        *)
(***************************************************************************)
ExampleTools ==
    << [name |-> <<"analyzeText">>, description |-> <<"Analizuje tekst i zwraca statystyki">>],
       [name |-> <<"extractEntities">>, description |-> <<"Wyodrebnia encje z tekstu">>],
       [name |-> <<"summarizeText">>, description |-> <<"Generuje podsumowanie tekstu">>],
       [name |-> <<"searchRepositories">>, description |-> <<"Wyszukuje repozytoria GitHub">>],
       [name |-> <<"generatePlan">>, description |-> <<"Generuje plan implementacji zadania">>],
       [name |-> <<"executeCode">>, description |-> <<"Wykonuje kod i zwraca wynik">>],
       [name |-> <<"analyzeCode">>, description |-> <<"Analizuje kod zrodlowy">>] >>

RECURSIVE registerAll(_, _)
registerAll(reg, ts) ==
    IF ts = <<>> THEN reg
    ELSE registerAll(registerTool(reg, StrV(Head(ts).name), FunV(Head(ts).name),
                                  StrV(Head(ts).description), Null).reg,
                     Tail(ts))

\* new MCPServer() followed by the example's registrations
ExampleRegistry == registerAll(registerSystemTools(EmptyRegistry), ExampleTools)

\* Date.now() read once more
Tick(t) == IF t < MaxClock THEN t + 1 ELSE t

\* what a tool of the example server does when it is invoked
ToolOutcomes ==
    {Ok(ObjV({"statistics"}, <<"out">>)), Thrown(ErrorV(<<"boom">>)), Thrown(Null)}

OutcomesOf(handler) ==
    IF handler \in {FunV(SystemGetTools), FunV(SystemPing)}
    THEN HandlerOutcomes(Registry, handler)
    ELSE ToolOutcomes

\* new MCPAgent(model, client, options) beside the example server; inp names the
\* agent classes and the options.maxRetries considered
InitAgent(inp) ==
    /\ tools = ExampleRegistry.tools
    /\ toolDescriptions = ExampleRegistry.toolDescriptions
    /\ toolSchemas = ExampleRegistry.toolSchemas
    /\ lastCall = NoCall
    /\ variant \in inp.variants
    /\ maxRetries \in {constructMaxRetries(o) : o \in inp.options}
    /\ conversations = <<>>
    /\ now = 0
    /\ call = [s \in Slots |-> IdleFrame]
    /\ sandbox = IdleSandbox

\* processUserQuery(userQuery) is called: lines 52-58, up to the analysis await
Start(s, inp) ==
    /\ call[s].pc = "idle" \/ (inp.restart /\ call[s].pc = "returned")
    /\ now < MaxClock
    /\ \E userQuery \in inp.queries :
        /\ conversations' = addToConversation(conversations, "user", StrV(userQuery), now)
        /\ call' = [call EXCEPT ![s] = [IdleFrame EXCEPT !.pc = "analyze",
                                                         !.userQuery = userQuery]]
    /\ now' = Tick(now)
    /\ UNCHANGED <<serverVars, variant, maxRetries>>

\* the analysis completion arrives: lines 116-172 and 58-65, up to the planning await
AnalysisReturns(s, inp) ==
    /\ call[s].pc = "analyze"
    /\ \E completion \in inp.analysis :
        call' = [call EXCEPT ![s] =
                    [@ EXCEPT !.taskAnalysis = analyzeUserQuery(variant, call[s].userQuery, completion),
                              !.analysisContent = completion,
                              !.pc = "plan"]]
    /\ UNCHANGED <<serverVars, variant, maxRetries, conversations, now>>

\* the planning completion arrives: lines 213-332, 65-72 and 340-356, up to the
\* first callTool await (or, with nothing to await, up to the synthesis await)
PlanReturns(s, inp) ==
    /\ call[s].pc = "plan"
    /\ \E completion \in inp.plans :
        LET plan == generatePlan(variant, call[s].taskAnalysis, completion)
            heard == [call[s] EXCEPT !.planContent = completion]
            entered == executePlan([heard EXCEPT !.plan = plan.val], maxRetries)
        IN  call' = [call EXCEPT ![s] =
                        IF plan.threw THEN failQuery(heard, plan.val)
                        ELSE IF entered.threw
                        THEN failQuery([heard EXCEPT !.plan = plan.val], entered.val)
                        ELSE entered.val]
    /\ UNCHANGED <<serverVars, variant, maxRetries, conversations, now>>

\* callTool returns or fails: lines 356-374, up to the next await
ToolReturns(s, inp) ==
    /\ call[s].pc = "callTool"
    /\ LET step == call[s].plan.steps[call[s].i + 1]
       IN  \E http \in inp.https :
           \E outcome \in OutcomesOf(MapGet(tools, ToStr(step.action))) :
           \E r \in {callTool(Registry, step.action, step.parameters, http, outcome)} :
               call' = [call EXCEPT ![s] = afterCallTool(@, r, maxRetries)]
    /\ UNCHANGED <<serverVars, variant, maxRetries, conversations, now>>

\* the delay before a retry is over: line 364, then 354-356
DelayElapsed(s) ==
    /\ call[s].pc = "delay"
    /\ call' = [call EXCEPT ![s] = whileLoop(@, maxRetries)]
    /\ UNCHANGED <<serverVars, variant, maxRetries, conversations, now>>

\* the synthesis completion arrives: lines 417-496 and 79-89
SynthesisReturns(s, inp) ==
    /\ call[s].pc = "synthesize"
    /\ \E completion \in inp.synthesis :
        LET response == generateUserResponse(variant, call[s].results, completion)
        IN  IF response.threw
            THEN /\ call' = [call EXCEPT ![s] =
                                failQuery([@ EXCEPT !.synthesisContent = completion],
                                          response.val)]
                 /\ UNCHANGED <<conversations, now>>
            ELSE /\ conversations' =
                        addToConversation(conversations, "assistant", response.val, now)
                 /\ now' = Tick(now)
                 /\ call' = [call EXCEPT ![s] = [@ EXCEPT !.pc = "returned",
                                                          !.synthesisContent = completion,
                                                          !.returned = response.val]]
    /\ UNCHANGED <<serverVars, variant, maxRetries>>

(***************************************************************************)
(* Plan execution: one call, plans of up to MaxPlanLen steps over a tool   *)
(* that is registered, one that is not, and an empty action name.          *)
(***************************************************************************)
RECURSIVE SeqsUpTo(_, _)
SeqsUpTo(S, n) ==
    IF n = 0 THEN {<<>>}
    ELSE SeqsUpTo(S, n - 1)
         \cup {Append(q, x) : q \in {r \in SeqsUpTo(S, n - 1) : Len(r) = n - 1}, x \in S}

StepPool ==
    {Step(StrV(<<"analyzeText">>), ObjV({"text"}, <<"t1">>)),
     Step(StrV(<<"searchWeb">>), ObjV({"query"}, <<"q1">>)),
     Step(StrV(<<>>), ObjV({}, <<>>))}

ExecuteInputs ==
    [variants |-> {"claude", "rules"},
     options |-> {RetriesOption(FALSE, 0)}
                 \cup {RetriesOption(TRUE, v) : v \in (0 - 1)..MaxRetriesOption},
     queries |-> {<<"przeanalizuj", " ", "tekst">>},
     analysis |-> {AnalysisCompletion("failed", "null", Undefined, Undefined)},
     plans |-> {PlanCompletion("json", PlanOf(steps)) : steps \in SeqsUpTo(StepPool, MaxPlanLen)}
               \cup {PlanCompletion("failed", NoPlan)},
     https |-> HttpOutcomes,
     synthesis |-> {SynthesisCompletion("text", StrV(<<"answer">>)),
                    SynthesisCompletion("failed", Undefined)},
     restart |-> FALSE]

InitExecute == InitAgent(ExecuteInputs)

NextExecute ==
    \/ Start(1, ExecuteInputs)
    \/ AnalysisReturns(1, ExecuteInputs)
    \/ PlanReturns(1, ExecuteInputs)
    \/ ToolReturns(1, ExecuteInputs)
    \/ DelayElapsed(1)
    \/ SynthesisReturns(1, ExecuteInputs)

SpecExecute == InitExecute /\ [][NextExecute]_vars

(***************************************************************************)
(* Termination: one call on the Claude agent, in which every await is      *)
(* answered in the end: the completions arrive or fail, callTool returns   *)
(* or fails, the timer of setTimeout fires.                                *)
(***************************************************************************)
TerminationInputs == [ExecuteInputs EXCEPT !.variants = {"claude"}]

InitTermination == InitAgent(TerminationInputs)

NextTermination ==
    \/ Start(1, TerminationInputs)
    \/ AnalysisReturns(1, TerminationInputs)
    \/ PlanReturns(1, TerminationInputs)
    \/ ToolReturns(1, TerminationInputs)
    \/ DelayElapsed(1)
    \/ SynthesisReturns(1, TerminationInputs)

SpecTermination ==
    /\ InitTermination
    /\ [][NextTermination]_vars
    /\ WF_vars(AnalysisReturns(1, TerminationInputs))
    /\ WF_vars(PlanReturns(1, TerminationInputs))
    /\ WF_vars(ToolReturns(1, TerminationInputs))
    /\ WF_vars(DelayElapsed(1))
    /\ WF_vars(SynthesisReturns(1, TerminationInputs))

(***************************************************************************)
(* The conversation log: calls of processUserQuery that overlap, each      *)
(* with a plan of no steps, repeated until the clock reaches MaxClock.     *)
(***************************************************************************)
ConversationInputs ==
    [variants |-> {"claude"},
     options |-> {RetriesOption(FALSE, 0)},
     queries |-> {<<"hello">>},
     analysis |-> {AnalysisCompletion("failed", "null", Undefined, Undefined)},
     plans |-> {PlanCompletion("json", PlanOf(<<>>))},
     https |-> {"ok"},
     synthesis |-> {SynthesisCompletion("text", StrV(<<"answer">>))},
     restart |-> TRUE]

InitConversation == InitAgent(ConversationInputs)

NextConversation ==
    \E s \in Slots :
        \/ Start(s, ConversationInputs)
        \/ AnalysisReturns(s, ConversationInputs)
        \/ PlanReturns(s, ConversationInputs)
        \/ SynthesisReturns(s, ConversationInputs)

SpecConversation == InitConversation /\ [][NextConversation]_vars

(***************************************************************************)
(* Two calls of processUserQuery on one agent that overlap, each with a    *)
(* plan of its own whose steps succeed or fail.                            *)
(***************************************************************************)
ConcurrentInputs ==
    [variants |-> {"claude", "rules"},
     options |-> {RetriesOption(TRUE, 2)},
     queries |-> {<<"hello">>},
     analysis |-> {AnalysisCompletion("failed", "null", Undefined, Undefined)},
     plans |-> {PlanCompletion("json", PlanOf(<<Step(StrV(<<"analyzeText">>),
                                                     ObjV({"text"}, <<"t1">>))>>)),
                PlanCompletion("json", PlanOf(<<Step(StrV(<<"searchWeb">>),
                                                     ObjV({"query"}, <<"q1">>)),
                                                Step(StrV(<<"analyzeText">>),
                                                     ObjV({"text"}, <<"t2">>))>>))},
     https |-> {"ok"},
     synthesis |-> {SynthesisCompletion("text", StrV(<<"answer">>)),
                    SynthesisCompletion("failed", Undefined)},
     restart |-> FALSE]

InitConcurrent == InitAgent(ConcurrentInputs)

NextConcurrent ==
    \E s \in {1, 2} :
        \/ Start(s, ConcurrentInputs)
        \/ AnalysisReturns(s, ConcurrentInputs)
        \/ PlanReturns(s, ConcurrentInputs)
        \/ ToolReturns(s, ConcurrentInputs)
        \/ DelayElapsed(s)
        \/ SynthesisReturns(s, ConcurrentInputs)

SpecConcurrent == InitConcurrent /\ [][NextConcurrent]_vars

(***************************************************************************)
(* A dialogue: calls of processUserQuery one after the other, each started *)
(* when the one before has ended, with plans of no steps and plans that    *)
(* have no steps list.                                                     *)
(***************************************************************************)
DialogueInputs ==
    [variants |-> {"claude"},
     options |-> {RetriesOption(FALSE, 0)},
     queries |-> {<<"hello">>},
     analysis |-> {AnalysisCompletion("failed", "null", Undefined, Undefined)},
     plans |-> {PlanCompletion("json", PlanOf(<<>>)),
                PlanCompletion("json", Plan("object", "undefined", <<>>))},
     https |-> {"ok"},
     synthesis |-> {SynthesisCompletion("text", StrV(<<"answer">>)),
                    SynthesisCompletion("failed", Undefined)},
     restart |-> TRUE]

InitDialogue == InitAgent(DialogueInputs)

\* the next call of the dialogue
StartNext == Len(conversations) < MaxTurns /\ Start(1, DialogueInputs)

NextDialogue ==
    \/ StartNext
    \/ AnalysisReturns(1, DialogueInputs)
    \/ PlanReturns(1, DialogueInputs)
    \/ SynthesisReturns(1, DialogueInputs)

SpecDialogue == InitDialogue /\ [][NextDialogue]_vars

(***************************************************************************)
(* One query from end to end: completions of every shape for the analysis  *)
(* and the planning prompt, tools that succeed or fail.                    *)
(***************************************************************************)
QueryInputs ==
    [variants |-> {"claude", "rules"},
     options |-> {RetriesOption(FALSE, 0)},
     queries |-> {<<"przeanalizuj", " ", "tekst">>, <<"uruchom", " ", "js">>,
                  <<"ZNAJDZ", " ", "rust">>},
     analysis |-> {AnalysisCompletion("failed", "null", Undefined, Undefined),
                   AnalysisCompletion("json", "null", Undefined, Undefined),
                   AnalysisCompletion("json", "object", StrV(<<"execute">>), Undefined),
                   AnalysisCompletion("json", "object", StrV(<<"search">>), StrV(<<"rust">>)),
                   AnalysisCompletion("json", "object", StrV(<<"execute">>),
                                      StrV(<<Fence, "js", " ", "kod", " ", Fence>>)),
                   AnalysisCompletion("json", "object", StrV(<<"execute">>),
                                      StrV(<<"test", Fence, "kod", Fence>>)),
                   AnalysisCompletion("text", "null", Undefined, Undefined)},
     plans |-> {PlanCompletion("failed", NoPlan),
                PlanCompletion("text", NoPlan),
                PlanCompletion("json", PlanOf(<<>>)),
                PlanCompletion("json", PlanOf(<<Step(StrV(<<"analyzeText">>),
                                                     ObjV({"text"}, <<"t1">>))>>)),
                PlanCompletion("json", Plan("object", "undefined", <<>>)),
                PlanCompletion("json", Plan("object", "object", <<>>)),
                PlanCompletion("json", Plan("null", "undefined", <<>>)),
                PlanText(<<"Plan:", "{", "steps:[analyzeText]", "}", "Koniec.">>),
                PlanText(<<"{", "steps:[analyzeText]", "}", "Uwaga:", "{", "x", "}">>),
                PlanText(<<"{", "steps:[]", "}", "}">>)},
     https |-> {"ok"},
     synthesis |-> {SynthesisCompletion("text", StrV(<<"answer">>)),
                    SynthesisCompletion("failed", Undefined)},
     restart |-> FALSE]

InitQuery == InitAgent(QueryInputs)

NextQuery ==
    \/ Start(1, QueryInputs)
    \/ AnalysisReturns(1, QueryInputs)
    \/ PlanReturns(1, QueryInputs)
    \/ ToolReturns(1, QueryInputs)
    \/ DelayElapsed(1)
    \/ SynthesisReturns(1, QueryInputs)

SpecQuery == InitQuery /\ [][NextQuery]_vars

(***************************************************************************)
(* The envelope codec and the client on their own: each function applied   *)
(* to arguments of every shape.                                            *)
(***************************************************************************)
\* the values a property of an envelope may have
VersionValues == {Undefined, StrV(ProtocolVersion), StrV(<<"2.0">>), NumV(ProtocolVersion)}
StatusValues == {Undefined, StrV(<<"success">>), StrV(<<"error">>), StrV(<<"pending">>)}
ResultValues == {Undefined, Null, ObjV({"answer"}, <<"r1">>), ObjV({}, <<>>),
                 StrV(<<"text">>), ArrV(<<"item">>)}
ErrorValues == {Undefined, StrV(<<"boom">>), StrV(<<>>), NumV(<<"7">>)}

\* the responses validateResponse is called with, and the client receives
Envelopes ==
    {[Response(v, s, r, e) EXCEPT !.extra = x] :
        v \in VersionValues, s \in StatusValues, r \in ResultValues, e \in ErrorValues,
        x \in BOOLEAN}
    \cup {[NoResponse EXCEPT !.kind = k] : k \in {"undefined", "null", "string", "array"}}

InitCodec == InitServer

\* validateResponse(response), the first call made
ValidateResponse ==
    /\ lastCall = NoCall
    /\ \E response \in Envelopes :
        lastCall' = [NoCall EXCEPT !.op = "validateResponse",
                                   !.args = <<response>>,
                                   !.response = response,
                                   !.returned = validateResponse(response)]
    /\ UNCHANGED <<tools, toolDescriptions, toolSchemas>>
    /\ UNCHANGED <<agentVars, sandbox>>

\* the arguments createRequest and callTool are called with
ActionNameValues ==
    {StrV(<<"toolA">>), StrV(<<>>), StrV(<<" ">>), Undefined, Null, NumV(<<"7">>)}
ParameterValues ==
    {Undefined, Null, ObjV({}, <<>>), ObjV({"text"}, <<"p1">>), StrV(<<"p1">>), ArrV(<<"item">>)}

\* createRequest(actionName, parameters), the first call made
CreateRequest ==
    /\ lastCall = NoCall
    /\ \E actionName \in ActionNameValues, parameters \in ParameterValues :
        LET r == createRequest(actionName, parameters)
        IN  lastCall' = [NoCall EXCEPT !.op = "createRequest",
                                       !.args = <<actionName, parameters>>,
                                       !.threw = r.threw,
                                       !.error = IF r.threw THEN r.val ELSE Undefined,
                                       !.request = IF r.threw THEN NoCall.request ELSE r.val]
    /\ UNCHANGED <<tools, toolDescriptions, toolSchemas>>
    /\ UNCHANGED <<agentVars, sandbox>>

\* what the transport may do
Transports ==
    {Transport("ok", data) : data \in Envelopes}
    \cup {Transport(kind, NoResponse) : kind \in HttpOutcomes \ {"ok"}}

\* client.callTool(actionName, parameters), the first call made
CallTool ==
    /\ lastCall = NoCall
    /\ \E actionName \in {StrV(<<"toolA">>), StrV(<<>>), Undefined},
          parameters \in {Undefined, ObjV({"text"}, <<"p1">>)},
          t \in Transports :
        LET r == callToolOver(actionName, parameters, t)
        IN  lastCall' = [NoCall EXCEPT !.op = "callTool",
                                       !.args = <<actionName, parameters>>,
                                       !.sent = r.sent,
                                       !.http = IF r.sent THEN t.kind ELSE "none",
                                       !.response = IF r.sent THEN t.data ELSE NoResponse,
                                       !.threw = r.threw,
                                       !.error = IF r.threw THEN r.val ELSE Undefined,
                                       !.returned = IF r.threw THEN Undefined ELSE r.val]
    /\ UNCHANGED <<tools, toolDescriptions, toolSchemas>>
    /\ UNCHANGED <<agentVars, sandbox>>

\* createSuccessResponse(result), the first call made
CreateSuccessResponse ==
    /\ lastCall = NoCall
    /\ \E result \in ResultValues :
        LET r == createSuccessResponse(result)
        IN  lastCall' = [NoCall EXCEPT !.op = "createSuccessResponse",
                                       !.args = <<result>>,
                                       !.threw = r.threw,
                                       !.error = IF r.threw THEN r.val ELSE Undefined,
                                       !.response = IF r.threw THEN NoResponse ELSE r.val]
    /\ UNCHANGED <<tools, toolDescriptions, toolSchemas>>
    /\ UNCHANGED <<agentVars, sandbox>>

\* createErrorResponse(errorMessage), the first call made
CreateErrorResponse ==
    /\ lastCall = NoCall
    /\ \E errorMessage \in ErrorValues \cup {StrV(<<" ">>), StrV(<<"a", "b">>)} :
        LET r == createErrorResponse(errorMessage)
        IN  lastCall' = [NoCall EXCEPT !.op = "createErrorResponse",
                                       !.args = <<errorMessage>>,
                                       !.threw = r.threw,
                                       !.error = IF r.threw THEN r.val ELSE Undefined,
                                       !.response = IF r.threw THEN NoResponse ELSE r.val]
    /\ UNCHANGED <<tools, toolDescriptions, toolSchemas>>
    /\ UNCHANGED <<agentVars, sandbox>>

\* validateRequest(request), called any number of times in a row
ValidateRequest ==
    /\ lastCall.op \in {"none", "validateRequest"}
    /\ \E request \in Requests :
        lastCall' = [NoCall EXCEPT !.op = "validateRequest",
                                   !.args = <<request>>,
                                   !.request = validatedArgument(request),
                                   !.returned = validateRequest(request)]
    /\ UNCHANGED <<tools, toolDescriptions, toolSchemas>>
    /\ UNCHANGED <<agentVars, sandbox>>

NextCodec ==
    \/ ValidateResponse
    \/ ValidateRequest
    \/ CreateRequest
    \/ CallTool
    \/ CreateSuccessResponse
    \/ CreateErrorResponse

SpecCodec == InitCodec /\ [][NextCodec]_vars

(***************************************************************************)
(* The code tools: invocations of executeCode that may overlap.            *)
(***************************************************************************)
Codes == {Code(sync, promise, later) :
            sync \in 0..1, promise \in BOOLEAN, later \in 0..1} \ {Code(0, FALSE, 1), Code(1, FALSE, 1)}

InitEval == InitServer

\* executeCode({language, code}) is called
ExecuteCode(id) ==
    /\ sandbox.runs[id].pc = "idle"
    /\ \A j \in 1..(id - 1) : sandbox.runs[j].pc # "idle"
    /\ \E language \in {"js", "python"}, code \in Codes :
        sandbox' = executeCodeCalled(sandbox, id, language, code)
    /\ UNCHANGED <<tools, toolDescriptions, toolSchemas, lastCall>>
    /\ UNCHANGED agentVars

\* the code of run id, its promise pending, logs a line
PendingCodeLogs(id) ==
    /\ sandbox.runs[id].pc = "pending"
    /\ sandbox.runs[id].left > 0
    /\ sandbox' = [consoleLogCalled(sandbox, id) EXCEPT !.runs[id].left = @ - 1]
    /\ UNCHANGED <<tools, toolDescriptions, toolSchemas, lastCall>>
    /\ UNCHANGED agentVars

\* the promise of run id settles: safeEval goes on after line 38
PromiseSettles(id) ==
    /\ sandbox.runs[id].pc = "pending"
    /\ sandbox.runs[id].left = 0
    /\ sandbox' = restoreAndReturn(sandbox, id)
    /\ UNCHANGED <<tools, toolDescriptions, toolSchemas, lastCall>>
    /\ UNCHANGED agentVars

NextEval ==
    \E id \in Runs :
        \/ ExecuteCode(id)
        \/ PendingCodeLogs(id)
        \/ PromiseSettles(id)

SpecEval == InitEval /\ [][NextEval]_vars

(***************************************************************************)
(* Properties of the dispatcher and the registry.                          *)
(***************************************************************************)
Handled == lastCall.op = "handleRequest"
Registered == lastCall.op = "registerTool"
\* the request of the last handleRequest passed validateRequest and has an action
ValidEnvelope ==
    /\ validateRequest(lastCall.request) = TrueV
    /\ lastCall.request.kind = "object"
RequestedName == lastCall.request.action.name.str
IsErrorEnvelope(r) ==
    /\ r.kind = "object"
    /\ r.version = StrV(ProtocolVersion)
    /\ r.status = StrV(<<"error">>)
    /\ r.error.kind = "string"
    /\ r.result = Undefined
IsSuccessEnvelope(r) ==
    /\ r.kind = "object"
    /\ r.version = StrV(ProtocolVersion)
    /\ r.status = StrV(<<"success">>)
    /\ r.result.kind = "object"
    /\ r.error = Undefined

\* C1: handleRequest is total: whatever the request (well-formed, malformed, null,
\* undefined) and whatever the handler does (throws an Error, throws a value that
\* is no Error, returns a value that is no object), the call does not reject and
\* returns a response envelope.
C1_HandleRequestTotal ==
    Handled =>
        /\ ~lastCall.threw
        /\ IsErrorEnvelope(lastCall.response) \/ IsSuccessEnvelope(lastCall.response)

\* a handler threw null (a value without a message) and handleRequest returned
\* an error envelope
C1_Witness ==
    /\ Handled
    /\ ~lastCall.threw
    /\ lastCall.invoked # <<>>
    /\ lastCall.invoked[1].outcome = Thrown(Null)
    /\ IsErrorEnvelope(lastCall.response)

\* C2: for every request validateRequest accepts, the envelope handleRequest
\* returns is accepted by validateResponse: version "1.0" and either status
\* success with an object result or status error with a string error.
C2_ResponseValid ==
    (Handled /\ validateRequest(lastCall.request) = TrueV) =>
        /\ lastCall.response.kind = "object"
        /\ validateResponse(lastCall.response) = TrueV
        /\ IsErrorEnvelope(lastCall.response) \/ IsSuccessEnvelope(lastCall.response)

\* a handler returned a string for an accepted request
C2_Witness ==
    /\ Handled
    /\ ValidEnvelope
    /\ lastCall.invoked # <<>>
    /\ lastCall.invoked[1].outcome = Ok(StrV(<<"text">>))
    /\ IsErrorEnvelope(lastCall.response)

\* C3: a valid request whose action.name is no key of the registry gets an
\* envelope with status "error" whose error text contains that name, and no
\* handler is invoked.
C3_UnknownTool ==
    (Handled /\ ValidEnvelope /\ ~MapHas(tools, RequestedName)) =>
        /\ IsErrorEnvelope(lastCall.response)
        /\ Includes(lastCall.response.error.str, RequestedName)
        /\ lastCall.response.error.str = UnknownToolMessage \o RequestedName
        /\ lastCall.invoked = <<>>

\* a user tool name was requested while it was not registered
C3_Witness ==
    /\ Handled
    /\ ValidEnvelope
    /\ RequestedName = <<"toolA">>
    /\ ~MapHas(tools, RequestedName)
    /\ lastCall.response.error.str = UnknownToolMessage \o <<"toolA">>

\* C4: when the looked-up handler fails, handleRequest returns (never re-raises)
\* an error envelope whose text is the tool-execution prefix followed by the
\* failure's message; when the handler completes with a mapping, the envelope is
\* status success with exactly that mapping as result.
C4_ToolFailureWrapped ==
    (Handled /\ lastCall.invoked # <<>>) =>
        LET outcome == lastCall.invoked[1].outcome
        IN  /\ outcome.threw =>
                /\ ~lastCall.threw
                /\ IsErrorEnvelope(lastCall.response)
                /\ StartsWith(lastCall.response.error.str, ToolErrorMessage)
                /\ (outcome.val.kind = "object" /\ "message" \in outcome.val.keys) =>
                      lastCall.response.error.str = ToolErrorMessage \o outcome.val.str
            /\ (~outcome.threw /\ outcome.val.kind = "object") =>
                /\ IsSuccessEnvelope(lastCall.response)
                /\ lastCall.response.result = outcome.val

\* C5: registerTool with a name that is already registered (the built-in
\* system.getTools and system.ping included) fails, and the registry is left as
\* it was: the same names, and under each the handler, description and schema of
\* its first registration.
C5_DuplicateRejected ==
    [][(/\ lastCall'.op = "registerTool"
        /\ lastCall'.args[1].kind = "string"
        /\ MapHas(tools, lastCall'.args[1].str))
       => /\ lastCall'.threw
          /\ tools' = tools
          /\ toolDescriptions' = toolDescriptions
          /\ toolSchemas' = toolSchemas]_vars

\* system.ping was registered again, with another handler than the built-in
\* one, after a user tool had been registered
C5_Witness ==
    /\ Registered
    /\ lastCall.threw
    /\ lastCall.args[1] = StrV(SystemPing)
    /\ lastCall.error = DuplicateError(SystemPing)
    /\ MapGet(tools, SystemPing) = FunV(SystemPing)
    /\ lastCall.args[2] = FunV(<<"h2">>)
    /\ MapHas(tools, <<"toolA">>)

\* C6: registerTool fails when name is no string or is empty or only whitespace,
\* when handler is no function, or when description is no string, and then none
\* of the three registry maps is modified.
C6_InvalidToolRejected ==
    [][(/\ lastCall'.op = "registerTool"
        /\ \/ lastCall'.args[1].kind # "string"
           \/ Trim(lastCall'.args[1].str) = <<>>
           \/ lastCall'.args[2].kind # "function"
           \/ lastCall'.args[3].kind # "string")
       => /\ lastCall'.threw
          /\ tools' = tools
          /\ toolDescriptions' = toolDescriptions
          /\ toolSchemas' = toolSchemas]_vars

\* a name of whitespace only was rejected, with a valid handler and description
C6_Witness ==
    /\ Registered
    /\ lastCall.threw
    /\ lastCall.args[1] = StrV(<<" ", " ">>)
    /\ lastCall.args[2].kind = "function"
    /\ lastCall.args[3].kind = "string"
    /\ lastCall.error = NameError


(***************************************************************************)
(* Properties of the agent: the conversation log and plan execution.       *)
(***************************************************************************)
Frame == call[1]
PlanSteps == Frame.plan.steps
IsArrayPlan == Frame.plan.kind = "object" /\ Frame.plan.stepsKind = "array"
EventsIn(log, e, k) == {j \in 1..Len(log) : log[j] = Event(e, k)}
EventsOf(e, k) == EventsIn(Frame.log, e, k)
ToolOutput == ObjV({"statistics"}, <<"out">>)

\* C7: the conversation log never holds more than 20 turns, however calls of
\* processUserQuery interleave, and an append to a log of 20 turns removes
\* exactly the oldest turn: the other 19 stay, in order, before the new one.
C7_LogBounded ==
    /\ [](Len(conversations) <= MaxConversations)
    /\ [][(Len(conversations) = MaxConversations /\ conversations' # conversations)
          => /\ Len(conversations') = MaxConversations
             /\ SubSeq(conversations', 1, MaxConversations - 1) = Tail(conversations)
             /\ conversations'[MaxConversations].timestamp = now]_vars

\* a full log whose oldest turn is gone, two calls having overlapped
C7_Witness ==
    /\ Len(conversations) = MaxConversations
    /\ conversations[1].timestamp > 0
    /\ \E j \in 1..(MaxConversations - 1) :
        conversations[j].role = "user" /\ conversations[j + 1].role = "user"

\* C8: _executePlan returns one entry per step of the plan, the i-th entry
\* carrying the action and the parameters of the i-th step.
C8_OneEntryPerStep ==
    (Frame.pc = "synthesize" /\ IsArrayPlan)
    => /\ Len(Frame.results) = Len(PlanSteps)
       /\ \A k \in 1..Len(PlanSteps) :
            /\ Frame.results[k].action = PlanSteps[k].action
            /\ Frame.results[k].parameters = PlanSteps[k].parameters

\* a plan of two different steps has been executed, the first step failing
C8_Witness ==
    /\ Frame.pc = "synthesize"
    /\ Len(PlanSteps) = 2
    /\ PlanSteps[1].action = StrV(<<"searchWeb">>)
    /\ PlanSteps[2].action = StrV(<<"analyzeText">>)
    /\ Len(Frame.results) = 2
    /\ HasProperty(Frame.results[1].result, "error")
    /\ Frame.results[2].result = ToolOutput

\* C9: when the agent leaves step k with every attempt of it failed, the
\* entry of step k is {error: message of the last failure}, and the step
\* after k, if there is one, is invoked next.
C9_FailedStepRecorded ==
    [][(/\ Frame.pc \in {"callTool", "delay"}
        /\ Frame'.i = Frame.i + 1
        /\ EventsIn(Frame'.log, "failed", Frame.i) # {}
        /\ EventsIn(Frame'.log, "ok", Frame.i) = {})
       => /\ Len(Frame'.results) = Frame.i + 1
          /\ Frame'.results[Frame.i + 1].result
                = ObjV({"error"}, ToStr(Message(Frame'.error).val))
          /\ Frame.i + 1 < Len(PlanSteps)
                => /\ Frame'.pc = "callTool"
                   /\ Frame'.i = Frame.i + 1
                   /\ Frame'.log[Len(Frame'.log)] = Event("invoke", Frame.i + 1)]_vars

\* the first step failed three times and the second step was invoked all the same
C9_Witness ==
    /\ maxRetries = DefaultMaxRetries
    /\ Cardinality(EventsOf("failed", 0)) = DefaultMaxRetries
    /\ EventsOf("ok", 0) = {}
    /\ Len(Frame.results) >= 1
    /\ Frame.results[1].result = ObjV({"error"}, NoServerResponseMessage)
    /\ EventsOf("invoke", 1) # {}

\* C10: a step is invoked at most maxRetries times and never again after an
\* attempt succeeded; with maxRetries = 3, a step that fails twice and then
\* succeeds is recorded with the output of the tool and no error field, and
\* a step that fails three times is recorded with an error field.
C10_RetryBudget ==
    \A k \in 0..(Len(Frame.plan.steps) - 1) :
        /\ maxRetries >= 1 => Cardinality(EventsOf("invoke", k)) <= maxRetries
        /\ \A j \in EventsOf("ok", k) : \A n \in EventsOf("invoke", k) : n < j
        /\ (maxRetries = DefaultMaxRetries /\ k < Len(Frame.results))
            => /\ (Cardinality(EventsOf("failed", k)) = 2 /\ EventsOf("ok", k) # {})
                    => /\ Frame.results[k + 1].result = ToolOutput
                       /\ ~HasProperty(Frame.results[k + 1].result, "error")
               /\ Cardinality(EventsOf("failed", k)) = 3
                    => /\ HasProperty(Frame.results[k + 1].result, "error")
                       /\ EventsOf("ok", k) = {}

\* with maxRetries = 3, the first step failed twice and succeeded at the third attempt
C10_Witness ==
    /\ maxRetries = DefaultMaxRetries
    /\ Len(Frame.log) >= 8
    /\ SubSeq(Frame.log, 1, 8)
         = << Event("invoke", 0), Event("failed", 0), Event("delay", 0),
              Event("invoke", 0), Event("failed", 0), Event("delay", 0),
              Event("invoke", 0), Event("ok", 0) >>
    /\ Len(Frame.results) >= 1
    /\ Frame.results[1].result = ToolOutput

\* C11: within one processUserQuery call the steps run strictly in sequence.
\* An invocation is in flight exactly while the call is suspended at callTool,
\* and it is the invocation logged last; every invocation is answered (ok or
\* failed, for the same step) before anything else happens; every retry wait
\* is over before anything else happens, and what follows it is the next
\* attempt of the same step; the events of a step never come after the events
\* of a later step.
C11_StepsInSequence ==
    /\ Frame.pc = "callTool"
        <=> (Frame.log # <<>> /\ Frame.log[Len(Frame.log)] = Event("invoke", Frame.i))
    /\ \A j \in 1..Len(Frame.log) :
        /\ (Frame.log[j].ev = "invoke" /\ j < Len(Frame.log))
            => Frame.log[j + 1] \in {Event("ok", Frame.log[j].step),
                                     Event("failed", Frame.log[j].step)}
        /\ Frame.log[j].ev = "delay"
            => IF j = Len(Frame.log) THEN Frame.pc = "delay" /\ Frame.i = Frame.log[j].step
               ELSE Frame.log[j + 1] = Event("invoke", Frame.log[j].step)
        /\ \A n \in 1..(j - 1) : Frame.log[n].step <= Frame.log[j].step

\* the second step is being invoked after the first step failed, waited and
\* was tried again
C11_Witness ==
    /\ Frame.pc = "callTool"
    /\ Frame.i = 1
    /\ EventsOf("delay", 0) # {}
    /\ Cardinality(EventsOf("invoke", 0)) >= 2
    /\ Frame.log[Len(Frame.log)] = Event("invoke", 1)

(***************************************************************************)
(* Properties of processUserQuery as a whole.                              *)
(***************************************************************************)
Faulted == Frame.fault # Undefined
FaultText == ToStr(Message(Frame.fault).val)

\* C12: processUserQuery never rejects.  A call that has ended has returned a
\* string: when a stage raised a fault, the error prefix followed by the
\* message of the fault; otherwise the synthesized response, which is also the
\* last turn of the conversation log.
C12_NeverRejects ==
    /\ Frame.pc # "rejected"
    /\ Frame.pc = "returned"
        => /\ Frame.returned.kind = "string"
           /\ IF Faulted
              THEN /\ Frame.returned.str = ProcessingErrorMessage \o FaultText
                   /\ Includes(Frame.returned.str, FaultText)
                   /\ FaultText # <<>>
              ELSE /\ conversations # <<>>
                   /\ conversations[Len(conversations)].role = "assistant"
                   /\ conversations[Len(conversations)].content = Frame.returned

\* the planning completion had no steps list, the execution stage raised a
\* TypeError and the call returned the error string
C12_Witness ==
    /\ Frame.pc = "returned"
    /\ Frame.plan = Plan("object", "undefined", <<>>)
    /\ Frame.fault = TypeErrorOf(Undefined)
    /\ Frame.returned = StrV(ProcessingErrorMessage \o <<"Cannot read properties of ", "undefined">>)

\* C13: whatever the completions for the analysis and the planning prompt are,
\* the call of the Claude-backed agent reaches synthesis and returns the
\* synthesized response: no call ends with the top-level error string.
C13_CompletionFaultsAbsorbed ==
    (variant = "claude" /\ Frame.pc = "returned") => ~Faulted

\* C17: whatever registerTool calls were made on the server, the request
\* {version: "1.0", action: {name: "system.ping", parameters: {}}} yields a
\* success envelope whose result has a timestamp, status "active" and
\* version "1.0".
C17_PingAnswers ==
    (Handled /\ lastCall.request = PingRequest)
    => /\ ~lastCall.threw
       /\ IsSuccessEnvelope(lastCall.response)
       /\ lastCall.response.result.keys = {"timestamp", "status", "version"}
       /\ lastCall.response.result.str = <<"active", "1.0">>

\* the ping is answered on a server on which user tools have been registered
C17_Witness ==
    /\ Handled
    /\ lastCall.request = PingRequest
    /\ Len(tools) > 2
    /\ MapHas(tools, <<"toolA">>)
    /\ lastCall.response.status = StrV(<<"success">>)
    /\ lastCall.response.result = systemPing

(***************************************************************************)
(* Properties of the envelope codec and the client.                        *)
(***************************************************************************)
Called(op) == lastCall.op = op
\* an object with no other properties than version, status, result and error
IsEnvelope(r) == r.kind = "object" /\ ~r.extra
Absent(v) == v.kind = "undefined"

\* C14: validateResponse accepts an envelope exactly when its version is
\* "1.0" and either its status is "success", its result an object and it has
\* no error, or its status is "error", its error a string and it has no result.
C14_ResponseAcceptedExactly ==
    (Called("validateResponse") /\ IsEnvelope(lastCall.response))
    => ((lastCall.returned = TrueV)
        <=> LET r == lastCall.response
            IN  /\ r.version = StrV(ProtocolVersion)
                /\ \/ /\ r.status = StrV(<<"success">>)
                      /\ r.result.kind = "object"
                      /\ Absent(r.error)
                   \/ /\ r.status = StrV(<<"error">>)
                      /\ r.error.kind = "string"
                      /\ Absent(r.result))

\* C15: createRequest fails when actionName is empty, every envelope it
\* returns is accepted by validateRequest, and callTool with an empty action
\* name fails without having sent a request.
C15_EmptyNameRejected ==
    /\ Called("createRequest")
        => /\ lastCall.args[1] = StrV(<<>>) => lastCall.threw
           /\ ~lastCall.threw => validateRequest(lastCall.request) = TrueV
    /\ (Called("callTool") /\ lastCall.args[1] = StrV(<<>>))
        => lastCall.threw /\ ~lastCall.sent

\* callTool was called with an empty name and failed with the message of
\* createRequest, nothing having been sent
C15_Witness ==
    /\ Called("callTool")
    /\ lastCall.args[1] = StrV(<<>>)
    /\ lastCall.threw
    /\ ~lastCall.sent
    /\ lastCall.error
         = ErrorV(InvalidRequestPrefix \o <<"\"action.name\" is not allowed to be empty">>)

\* C16: for every result value and every message string, createSuccessResponse
\* and createErrorResponse return, and what they return is an envelope that
\* validateResponse accepts.
C16_BuildersTotal ==
    (\/ Called("createSuccessResponse")
     \/ Called("createErrorResponse") /\ lastCall.args[1].kind = "string")
    => /\ ~lastCall.threw
       /\ lastCall.response.kind = "object"
       /\ validateResponse(lastCall.response) = TrueV

(***************************************************************************)
(* Properties of the rule-based planner.                                   *)
(***************************************************************************)
Planned == Frame.pc \in {"callTool", "delay", "synthesize", "returned"} /\ Frame.plan # NoPlan
\* the plan is not one a planning completion supplied: the rule table made it
RulePlanned ==
    /\ Planned
    /\ variant = "rules"
        \/ Frame.plan \notin {c.plan : c \in {p \in QueryInputs.plans : p.kind = "json"}}
SearchActions == [claude |-> <<"searchWeb">>, rules |-> <<"searchRepositories">>]

\* C18: when the rule table plans for an analysis of type "search" with target
\* content T, the plan has exactly one step, its action is searchWeb (Claude
\* agent's fallback) or searchRepositories (rule-based agent), and the query
\* in its parameters is T; the plan is a function of the analysis, so that
\* planning again gives the same steps in the same order.
C18_SearchPlan ==
    (/\ RulePlanned
     /\ Frame.taskAnalysis.type = StrV(<<"search">>)
     /\ Frame.taskAnalysis.targetContent.kind = "string")
    => /\ Frame.plan.stepsKind = "array"
       /\ Len(PlanSteps) = 1
       /\ PlanSteps[1].action = StrV(SearchActions[variant])
       /\ PlanSteps[1].action \in {StrV(<<"searchWeb">>), StrV(<<"searchRepositories">>)}
       /\ "query" \in PlanSteps[1].parameters.keys
       /\ PlanSteps[1].parameters.str = Frame.taskAnalysis.targetContent.str

\* the rule-based agent planned a search for "rust" from the query ZNAJDZ rust
C18_Witness ==
    /\ variant = "rules"
    /\ Frame.userQuery = <<"ZNAJDZ", " ", "rust">>
    /\ Frame.taskAnalysis.type = StrV(<<"search">>)
    /\ Frame.taskAnalysis.targetContent = StrV(<<"rust">>)
    /\ Planned
    /\ PlanSteps = <<Step(StrV(<<"searchRepositories">>), ObjV({"query", "perPage"}, <<"rust">>))>>

Received == Called("callTool") /\ lastCall.sent /\ lastCall.http = "ok"

\* C19: callTool returns a value only when the response received passes
\* validateResponse and has status "success", and the value is the result of
\* the response; it fails, with a message containing the error text of the
\* server, when the response has status "error", and it fails when the
\* response does not pass validateResponse; what it returns is never an error
\* envelope.
C19_ClientUnwraps ==
    Called("callTool")
    => /\ ~lastCall.threw
            => /\ Received
               /\ lastCall.response.kind = "object"
               /\ validateResponse(lastCall.response) = TrueV
               /\ lastCall.response.status = StrV(<<"success">>)
               /\ lastCall.returned = lastCall.response.result
               /\ lastCall.returned # lastCall.response
       /\ (/\ Received
           /\ lastCall.response.kind = "object"
           /\ lastCall.response.status = StrV(<<"error">>))
            => /\ lastCall.threw
               /\ validateResponse(lastCall.response) = TrueV
                    => /\ Message(lastCall.error).val.kind = "string"
                       /\ Includes(Message(lastCall.error).val.str, lastCall.response.error.str)
                       /\ Message(lastCall.error).val.str
                            = ServerErrorMessage \o lastCall.response.error.str
       /\ (Received /\ validateResponse(lastCall.response) # TrueV) => lastCall.threw

\* callTool received a success envelope and returned its result
C19_Witness ==
    /\ Received
    /\ ~lastCall.threw
    /\ lastCall.response
         = Response(StrV(ProtocolVersion), StrV(<<"success">>), ObjV({"answer"}, <<"r1">>), Undefined)
    /\ lastCall.returned = ObjV({"answer"}, <<"r1">>)

\* a request with version "1.0", an action with a non-empty name and, if any,
\* parameters that are an object, and nothing else
WellFormedRequest(r) ==
    /\ r.kind = "object" /\ ~r.extra
    /\ r.version = StrV(ProtocolVersion)
    /\ r.action.kind = "object" /\ ~r.action.extra
    /\ r.action.name.kind = "string" /\ r.action.name.str # <<>>
    /\ r.action.parameters.kind \in {"undefined", "object"}

RegisteredEntry(args) ==
    args[1].str \o <<"|">> \o args[3].str \o <<"|">>
    \o (IF args[4] = Null THEN <<"null">> ELSE args[4].str) \o <<";">>

\* C21: the catalog of system.getTools is empty on a new server; a successful
\* registerTool of a name outside "system." adds one line at its end, with the
\* name, the description and the schema given (null when none was given); any
\* other call leaves it as it is; and a system.getTools request is answered
\* with a success envelope holding that catalog.  So the catalog lists exactly
\* the registered tools outside "system.", each once, in registration order.
C21_CatalogInRegistrationOrder ==
    /\ [](lastCall = NoCall => systemGetTools(Registry).str = <<>>)
    /\ [][systemGetTools(Registry').str
            = IF /\ lastCall'.op = "registerTool"
                 /\ ~lastCall'.threw
                 /\ ~StartsWith(lastCall'.args[1].str, SystemPrefix)
              THEN systemGetTools(Registry).str \o RegisteredEntry(lastCall'.args)
              ELSE systemGetTools(Registry).str]_vars
    /\ []((/\ lastCall.op = "handleRequest"
           /\ validateRequest(lastCall.request) = TrueV
           /\ lastCall.request.kind = "object"
           /\ lastCall.request.action.name.str = SystemGetTools)
          => /\ lastCall.response.status = StrV(<<"success">>)
             /\ lastCall.response.result.keys = {"tools"}
             /\ lastCall.response.result = systemGetTools(Registry))

\* toolB was registered before toolA, toolA with a schema, and the catalog
\* returned lists the two in that order and no built-in tool
C21_Witness ==
    /\ lastCall.op = "handleRequest"
    /\ lastCall.request.action.name = StrV(SystemGetTools)
    /\ lastCall.response.status = StrV(<<"success">>)
    /\ lastCall.response.result.str
         = <<"toolB", "|", "d1", "|", "null", ";", "toolA", "|", "|", "s1", ";">>
    /\ MapHas(tools, SystemPing)

(***************************************************************************)
(* Properties of the analysis step.                                        *)
(***************************************************************************)
\* the analysis await is over: the task analysis has been handed on
Analyzed == Frame.pc \notin {"idle", "analyze"}
TaskTypes == {<<"analyze">>, <<"search">>, <<"generate">>, <<"execute">>, <<"unknown">>}

\* C22: when the text of the analysis completion does not parse and neither
\* pattern finds its field in it, the task analysis of the Claude-backed agent
\* is the keyword classifier's: the type of the first keyword row with a
\* keyword in the lowercased query (unknown when there is none), and the whole
\* query as target content.
C22_KeywordClassifierUsed ==
    (/\ variant = "claude"
     /\ Analyzed
     /\ Frame.analysisContent.kind = "text"
     /\ Frame.analysisContent.type = Undefined
     /\ Frame.analysisContent.targetContent = Undefined)
    => /\ Frame.taskAnalysis.type = StrV(keywordType(Frame.userQuery))
       /\ Frame.taskAnalysis.targetContent = StrV(Frame.userQuery)

\* C23: every task analysis handed to the planning step has a type among
\* analyze, search, generate, execute, unknown, and a string as target
\* content, whatever the analysis completion was.
C23_AnalysisWellFormed ==
    Analyzed
    => /\ Frame.taskAnalysis.type.kind = "string"
       /\ Frame.taskAnalysis.type.str \in TaskTypes
       /\ Frame.taskAnalysis.targetContent.kind = "string"

(***************************************************************************)
(* Properties of the stages of processUserQuery.                           *)
(***************************************************************************)
\* the texts a synthesized response may be for a plan without steps: the text
\* of the completion, or the heading of the deterministic rendering
EmptyPlanResponses ==
    {c.text : c \in {x \in QueryInputs.synthesis : x.kind # "failed"}}
    \cup {StrV(<<"Oto wyniki:">>)}

\* C24: a plan with no steps is executed without a fault: no tool is invoked,
\* the result sequence is empty, the call goes on to synthesis, and when it
\* has ended it has returned the synthesized response, which is the assistant
\* turn at the end of the log.
C24_EmptyPlanValid ==
    (IsArrayPlan /\ PlanSteps = <<>>)
    => /\ Frame.pc \in {"synthesize", "returned"}
       /\ Frame.log = <<>>
       /\ Frame.results = <<>>
       /\ ~Faulted
       /\ Frame.pc = "returned"
            => /\ Frame.returned \in EmptyPlanResponses
               /\ Len(conversations) = 2
               /\ conversations[2].role = "assistant"
               /\ conversations[2].content = Frame.returned

\* the planning completion was a plan with an empty steps list, and the call
\* returned the text of the synthesis completion
C24_Witness ==
    /\ Frame.planContent = PlanCompletion("json", PlanOf(<<>>))
    /\ Frame.plan = PlanOf(<<>>)
    /\ Frame.pc = "returned"
    /\ Frame.results = <<>>
    /\ Frame.returned = StrV(<<"answer">>)
    /\ conversations[Len(conversations)].content = StrV(<<"answer">>)

\* the sections of a rendering: its headers
Sections(text) == {j \in 1..Len(text) : text[j] = "### "}
\* the section at j is headed by the name of the action
HeadedBy(text, j, action) ==
    /\ j + Len(ToStr(action)) + 1 <= Len(text)
    /\ SubSeq(text, j, j + Len(ToStr(action)) + 1) = <<"### ">> \o ToStr(action) \o <<":">>

\* C25: when the synthesis completion fails, the call of the Claude-backed
\* agent does not end in the top-level error path: it returns the heading
\* followed by one section per step result, in the order of the results, the
\* section of a result with an error field showing the error message.
C25_SynthesisFallback ==
    (variant = "claude" /\ Frame.pc = "returned" /\ Frame.synthesisContent.kind = "failed")
    => /\ ~Faulted
       /\ Frame.returned.kind = "string"
       /\ StartsWith(Frame.returned.str, <<"Oto wyniki:">>)
       /\ Cardinality(Sections(Frame.returned.str)) = Len(Frame.results)
       /\ \A k \in 1..Len(Frame.results) :
            /\ \E j \in Sections(Frame.returned.str) :
                /\ Cardinality({n \in Sections(Frame.returned.str) : n <= j}) = k
                /\ HeadedBy(Frame.returned.str, j, Frame.results[k].action)
            /\ HasProperty(Frame.results[k].result, "error")
                => Includes(Frame.returned.str,
                            <<"### ">> \o ToStr(Frame.results[k].action)
                            \o <<":", "Wystapil blad: ">> \o Frame.results[k].result.str)

\* the stage a call is in: 0 before the call, 1 analysis, 2 planning,
\* 3 execution, 4 synthesis, 5 ended
StageOf(pc) ==
    CASE pc = "idle" -> 0
      [] pc = "analyze" -> 1
      [] pc = "plan" -> 2
      [] pc \in {"callTool", "delay"} -> 3
      [] pc = "synthesize" -> 4
      [] OTHER -> 5

\* C26: within one call the stages are entered in the order analysis,
\* planning, execution, synthesis, none of them twice and each only when the
\* one before has returned (a stage may be left for the end of the call by a
\* fault, and execution is passed over when there is nothing to await); a
\* tool is invoked only after the planning completion has arrived; and the
\* synthesis completion is awaited only when every step of the plan has its
\* result and no invocation or retry wait is pending.
C26_StagesInOrder ==
    /\ [][\/ StageOf(Frame'.pc) = StageOf(Frame.pc)
          \/ /\ StageOf(Frame'.pc) = StageOf(Frame.pc) + 1
          \/ /\ StageOf(Frame.pc) = 2
             /\ StageOf(Frame'.pc) \in {4, 5}
          \/ /\ StageOf(Frame.pc) \in {3, 4}
             /\ StageOf(Frame'.pc) = 5]_vars
    /\ [](/\ StageOf(Frame.pc) <= 1 => Frame.analysisContent.kind = "none"
          /\ StageOf(Frame.pc) <= 2
                => /\ Frame.planContent.kind = "none"
                   /\ Frame.plan = NoPlan
                   /\ Frame.log = <<>>
          /\ StageOf(Frame.pc) >= 2 => Frame.analysisContent.kind # "none"
          /\ StageOf(Frame.pc) >= 3 => Frame.planContent.kind # "none"
          /\ Frame.log # <<>> => Frame.planContent.kind # "none" /\ IsArrayPlan
          /\ StageOf(Frame.pc) <= 4 => Frame.synthesisContent.kind = "none"
          /\ (Frame.pc = "synthesize" \/ Frame.synthesisContent.kind # "none")
                => /\ IsArrayPlan => /\ Len(Frame.results) = Len(PlanSteps)
                                     /\ Frame.i = Len(PlanSteps)
                   /\ Frame.log # <<>>
                        => Frame.log[Len(Frame.log)].ev \in {"ok", "failed"})

\* a call has gone through the four stages: a plan of two steps was executed,
\* with a retry, and the synthesis completion arrived after the second result
C26_Witness ==
    /\ Frame.pc = "returned"
    /\ ~Faulted
    /\ Frame.synthesisContent.kind = "text"
    /\ Len(PlanSteps) = 2
    /\ Len(Frame.results) = 2
    /\ EventsOf("delay", 0) # {}
    /\ EventsOf("invoke", 1) # {}

(***************************************************************************)
(* Properties of the conversation log over a dialogue.                     *)
(***************************************************************************)
\* C27: a call appends the user turn with its query when it starts, before
\* the analysis; a synthesized response is appended as one assistant turn
\* whose content is the text returned; nothing else is appended; so the log
\* of calls made one after the other alternates user, assistant, and its
\* turns hold texts only.
C27_LogAlternates ==
    /\ [][IF Frame'.pc = "analyze" /\ Frame.pc # "analyze"
          THEN conversations'
                 = Append(conversations, Turn("user", StrV(Frame'.userQuery), now))
          ELSE IF Frame.pc = "synthesize" /\ Frame'.pc = "returned" /\ ~Faulted'
          THEN conversations'
                 = Append(conversations, Turn("assistant", Frame'.returned, now))
          ELSE conversations' = conversations]_vars
    /\ [](\A j \in 1..Len(conversations) :
            /\ conversations[j].role = (IF j % 2 = 1 THEN "user" ELSE "assistant")
            /\ conversations[j].content.kind = "string")

(***************************************************************************)
(* Properties of the retry wait.                                           *)
(***************************************************************************)
\* the positions of the log with an event of kind e
EventsOfKind(e) == {j \in 1..Len(Frame.log) : Frame.log[j].ev = e}

\* C28: a retry wait comes right after a failed attempt and right before the
\* next attempt of the same step, and two attempts of a step that follow each
\* other have exactly that between them; every wait lasts 1000 ms whatever the
\* attempt; nothing waits after an attempt that succeeded, nor after the last
\* attempt of a step; a step left after maxRetries failed attempts has waited
\* maxRetries - 1 times.
C28_FixedDelayBetweenAttempts ==
    /\ Len(Frame.delays) = Cardinality(EventsOfKind("delay"))
    /\ \A n \in 1..Len(Frame.delays) : Frame.delays[n] = RetryDelayMs
    /\ \A j \in EventsOfKind("delay") :
        /\ j > 1 /\ Frame.log[j - 1] = Event("failed", Frame.log[j].step)
        /\ j < Len(Frame.log) => Frame.log[j + 1] = Event("invoke", Frame.log[j].step)
        /\ j = Len(Frame.log) => Frame.pc = "delay"
    /\ \A j \in EventsOfKind("invoke") :
        (j > 1 /\ Frame.log[j - 1].step = Frame.log[j].step)
            => /\ j > 3
               /\ SubSeq(Frame.log, j - 3, j - 1)
                    = <<Event("invoke", Frame.log[j].step), Event("failed", Frame.log[j].step),
                        Event("delay", Frame.log[j].step)>>
    /\ \A j \in EventsOfKind("ok") :
        j < Len(Frame.log) => Frame.log[j + 1] = Event("invoke", Frame.log[j].step + 1)
    /\ \A k \in 0..(Len(Frame.results) - 1) :
        /\ \A j \in EventsOf("delay", k) : \E n \in EventsOf("invoke", k) : n > j
        /\ (maxRetries >= 1 /\ EventsOf("ok", k) = {})
            => /\ Cardinality(EventsOf("invoke", k)) = maxRetries
               /\ Cardinality(EventsOf("failed", k)) = maxRetries
               /\ Cardinality(EventsOf("delay", k)) = maxRetries - 1

\* with maxRetries = 3 the first step failed three times: two waits of
\* 1000 ms, and none after the third failure
C28_Witness ==
    /\ maxRetries = DefaultMaxRetries
    /\ Len(Frame.results) >= 1
    /\ Cardinality(EventsOf("failed", 0)) = DefaultMaxRetries
    /\ Cardinality(EventsOf("delay", 0)) = DefaultMaxRetries - 1
    /\ Len(Frame.delays) >= 2
    /\ SubSeq(Frame.delays, 1, 2) = <<RetryDelayMs, RetryDelayMs>>
    /\ Frame.log[8] = Event("failed", 0)
    /\ Len(Frame.log) > 8 => Frame.log[9].ev # "delay"

(***************************************************************************)
(* Properties of the planner's fallbacks.                                  *)
(***************************************************************************)
\* the planning await is over and the plan came from the rule table: the agent
\* is the rule-based one, or the completion failed or its text did not parse
RuleTableUsed ==
    /\ Frame.planContent.kind # "none"
    /\ \/ variant = "rules"
       \/ Frame.planContent.kind \in {"failed", "text"}
       \/ /\ Frame.planContent.kind = "content"
          /\ parseJson(jsonMatch(Frame.planContent.content)).threw

\* C29: when the rule table plans for a task analysis of type execute, the
\* plan has an executeCode step, and the code in its parameters is the content
\* of the fenced block of the target content when there is one.
C29_ExecutePlanned ==
    (RuleTableUsed /\ Frame.taskAnalysis.type = StrV(<<"execute">>))
    => /\ IsArrayPlan
       /\ \E k \in 1..Len(PlanSteps) :
            /\ PlanSteps[k].action = StrV(<<"executeCode">>)
            /\ "code" \in PlanSteps[k].parameters.keys
            /\ codeMatch(Frame.taskAnalysis.targetContent.str).found
                => PlanSteps[k].parameters.str
                     = Trim(codeMatch(Frame.taskAnalysis.targetContent.str).code)

\* C30: when the text of the planning completion holds a block with balanced
\* braces that parses, the plan of the Claude-backed agent is what the first
\* such block parses to, whatever text comes before or after it; so a plan
\* object followed by text with braces of its own yields that plan and not
\* the plan of the rule table.
C30_FirstBalancedBlockParsed ==
    (/\ variant = "claude"
     /\ Frame.planContent.kind = "content"
     /\ ~parseJson(firstBalancedBlock(Frame.planContent.content)).threw)
    => Frame.plan = parseJson(firstBalancedBlock(Frame.planContent.content)).val

(***************************************************************************)
(* Properties of the code tools.                                           *)
(***************************************************************************)
\* no invocation of executeCode is under way
AllRunsOver == \A id \in Runs : sandbox.runs[id].pc \in {"idle", "done"}

\* C31: executeCode keeps no state between invocations: when no invocation is
\* under way console.log is the function it was before the first one, and
\* the output of an invocation that has returned holds lines of its own code
\* only.
C31_ExecuteCodeStateless ==
    /\ AllRunsOver => sandbox.consoleLog = NativeLog
    /\ \A id \in Runs :
        sandbox.runs[id].pc = "done"
            => \A n \in 1..Len(sandbox.runs[id].output) : sandbox.runs[id].output[n] = id

(***************************************************************************)
(* Properties of calls that overlap.                                       *)
(***************************************************************************)
\* the entry _executePlan records for step k of the plan of call s
OwnEntry(s, k) ==
    /\ call[s].results[k].action = call[s].plan.steps[k].action
    /\ call[s].results[k].parameters = call[s].plan.steps[k].parameters

\* the plan of call s has been executed
Executed(s) == call[s].pc \in {"synthesize", "returned"} /\ call[s].plan # NoPlan

\* C32: of two calls that run at the same time, each hands to synthesis the
\* steps of its own plan, in plan order and nothing else, and returns the
\* synthesis of its own results.
C32_CallsKeepTheirResults ==
    \A s \in {1, 2} :
        /\ Executed(s) =>
            /\ Len(call[s].results) = Len(call[s].plan.steps)
            /\ \A k \in 1..Len(call[s].results) : OwnEntry(s, k)
        /\ (call[s].pc = "returned" /\ call[s].fault = Undefined) =>
            call[s].returned
                = generateUserResponse(variant, call[s].results, call[s].synthesisContent).val

\* both calls were started before either returned, with different plans, and
\* both have returned the rendering of their results
C32_Witness ==
    /\ call[1].pc = "returned" /\ call[2].pc = "returned"
    /\ call[1].plan # call[2].plan
    /\ call[1].synthesisContent.kind = "failed" /\ call[2].synthesisContent.kind = "failed"
    /\ call[1].returned # call[2].returned
    /\ Len(conversations) >= 2
    /\ conversations[1].role = "user" /\ conversations[2].role = "user"

(***************************************************************************)
(* Properties of the registry as a whole.                                  *)
(***************************************************************************)
\* what the registry holds under name: handler, description and schema
EntryOf(reg, name) ==
    <<MapHas(reg.tools, name), MapGet(reg.tools, name),
      MapHas(reg.toolDescriptions, name), MapGet(reg.toolDescriptions, name),
      MapHas(reg.toolSchemas, name), MapGet(reg.toolSchemas, name)>>

\* C33: the registry only grows: the two built-in tools are its first two
\* entries, and whatever registerTool or handleRequest call is made, a name
\* that is registered stays registered, with the handler, description and
\* schema it was first registered with.
C33_RegistryAddOnly ==
    /\ [](/\ Len(tools) >= 2
          /\ SubSeq(MapKeys(tools), 1, 2) = <<SystemGetTools, SystemPing>>
          /\ SubSeq(MapKeys(toolDescriptions), 1, 2) = <<SystemGetTools, SystemPing>>)
    /\ [][\A j \in 1..Len(tools) :
            /\ j <= Len(tools')
            /\ tools'[j] = tools[j]
            /\ EntryOf(Registry', tools[j].key) = EntryOf(Registry, tools[j].key)]_vars

\* toolA, registered with handler h1 and no schema, is still so after a
\* second registration of the name, with handler h2 and a schema, was refused
C33_Witness ==
    /\ Registered
    /\ lastCall.args[1] = StrV(<<"toolA">>)
    /\ lastCall.args[2] = FunV(<<"h2">>)
    /\ lastCall.threw
    /\ EntryOf(Registry, <<"toolA">>)
         = <<TRUE, FunV(<<"h1">>), TRUE, StrV(<<"d1">>), FALSE, Undefined>>
    /\ Len(tools) = 4

\* the request is an object whose version is not "1.0" or whose action has no
\* name or an empty one
BadVersionOrName(request) ==
    /\ request.kind = "object"
    /\ \/ request.version # StrV(ProtocolVersion)
       \/ request.action.kind = "undefined"
       \/ request.action.kind = "object"
            /\ request.action.name \in {Undefined, StrV(<<>>)}

\* C34: a request makes handleRequest call at most one handler, and only after
\* validateRequest accepted it and its action name was found in the registry;
\* a request with another version than "1.0", or without a non-empty action
\* name, is answered with the error envelope of the validation message,
\* whether or not the name it gives is registered.
C34_HandlerOnlyAfterValidation ==
    Handled =>
        /\ Len(lastCall.invoked) <= 1
        /\ lastCall.invoked # <<>> =>
            /\ validateRequest(lastCall.request) = TrueV
            /\ MapHas(tools, RequestedName)
            /\ lastCall.invoked[1].handler = MapGet(tools, RequestedName)
        /\ BadVersionOrName(lastCall.request) =>
            /\ lastCall.invoked = <<>>
            /\ validateRequest(lastCall.request) # TrueV
            /\ IsErrorEnvelope(lastCall.response)
            /\ lastCall.response.error.str
                 = InvalidRequestMessage \o validateRequest(lastCall.request).str

\* a request of version "2.0" named toolA while toolA was registered, and was
\* answered with the validation message
C34_Witness ==
    /\ Handled
    /\ lastCall.request.version = StrV(<<"2.0">>)
    /\ lastCall.request.action.name = StrV(<<"toolA">>)
    /\ MapHas(tools, <<"toolA">>)
    /\ lastCall.invoked = <<>>
    /\ lastCall.response.error.str = InvalidRequestMessage \o <<"\"version\" must be [1.0]">>

(***************************************************************************)
(* Termination of a call.                                                  *)
(***************************************************************************)
\* the completions the call has been given an answer to
CompletionsHeard(c) ==
    {stage \in {"analysis", "planning", "synthesis"} :
        \/ stage = "analysis" /\ c.analysisContent.kind # "none"
        \/ stage = "planning" /\ c.planContent.kind # "none"
        \/ stage = "synthesis" /\ c.synthesisContent.kind # "none"}

\* C35: when every completion and every tool invocation is answered in the
\* end (and every retry timer fires), a call of processUserQuery returns; no
\* completion is asked for twice, so there are at most three of them; and
\* with maxRetries >= 1 a plan of N steps costs at most N x maxRetries tool
\* invocations.
C35_CallTerminates ==
    /\ (Frame.pc = "analyze") ~> (Frame.pc = "returned")
    /\ [][/\ Frame.analysisContent.kind # "none"
                => Frame'.analysisContent = Frame.analysisContent
          /\ Frame.planContent.kind # "none" => Frame'.planContent = Frame.planContent
          /\ Frame.synthesisContent.kind # "none"
                => Frame'.synthesisContent = Frame.synthesisContent
          /\ Cardinality(CompletionsHeard(Frame')) <= Cardinality(CompletionsHeard(Frame)) + 1]_vars
    /\ [](/\ Cardinality(CompletionsHeard(Frame)) <= 3
          /\ (maxRetries >= 1 /\ IsArrayPlan)
                => Cardinality(EventsOfKind("invoke")) <= Len(PlanSteps) * maxRetries)

\* a call has returned after three completions and, with maxRetries = 3 and a
\* plan of two steps, six tool invocations
C35_Witness ==
    /\ Frame.pc = "returned"
    /\ Cardinality(CompletionsHeard(Frame)) = 3
    /\ maxRetries = DefaultMaxRetries
    /\ Len(PlanSteps) = 2
    /\ Cardinality(EventsOfKind("invoke")) = 6

(***************************************************************************)
(* Properties of a step whose tool the server does not know.               *)
(***************************************************************************)
\* step k (from 0) names a tool, and the server has no tool of that name
UnknownStep(k) ==
    /\ PlanSteps[k + 1].action.kind = "string"
    /\ PlanSteps[k + 1].action.str # <<>>
    /\ ~MapHas(tools, PlanSteps[k + 1].action.str)

\* what callTool throws when the server answers that it has no such tool
UnknownToolFailure(name) == ErrorV(ServerErrorMessage \o UnknownToolMessage \o name)

ParametersOmitted ==
    /\ Handled
    /\ lastCall.request
         \in {Request(StrV(ProtocolVersion), Action(StrV(n), Undefined)) : n \in RequestNames}

\* C37: a request whose action has no parameters is accepted by
\* validateRequest, and the handler handleRequest then calls is given the
\* empty object (the default of the schema), never undefined.
C37_ParametersDefaulted ==
    ParametersOmitted =>
        /\ validateRequest(lastCall.request) = TrueV
        /\ \A j \in 1..Len(lastCall.invoked) :
            /\ lastCall.invoked[j].parameters # Undefined
            /\ lastCall.invoked[j].parameters = ObjV({}, <<>>)

(***************************************************************************)
(* Properties of the retry option.                                         *)
(***************************************************************************)
\* C38: whatever options.maxRetries was given (0 and negative numbers
\* included), a step that has its entry in the results was attempted at least
\* once, and the result recorded is the output of the tool or an
\* {error: message} record, never undefined.
C38_StepAttemptedAndRecorded ==
    \A k \in 1..Len(Frame.results) :
        /\ Cardinality(EventsOf("invoke", k - 1)) >= 1
        /\ ~Absent(Frame.results[k].result)
        /\ \/ Frame.results[k].result = ToolOutput
           \/ Frame.results[k].result.keys = {"error"}

(***************************************************************************)
(* Properties of the example configuration.                                *)
(***************************************************************************)
\* C39: in the Claude-agent example every action the rule table of the Claude
\* agent puts in a plan is the name of a tool registered on the example
\* server, so that no step of such a plan is recorded with the server's
\* unknown-tool error.
C39_FallbackActionsRegistered ==
    (variant = "claude" /\ RuleTableUsed /\ IsArrayPlan) =>
        /\ \A k \in 1..Len(PlanSteps) :
            /\ PlanSteps[k].action.kind = "string"
            /\ MapHas(tools, PlanSteps[k].action.str)
        /\ \A k \in 1..Len(Frame.results) :
            Frame.results[k].result
                # ObjV({"error"}, UnknownToolFailure(ToStr(Frame.results[k].action)).str)

\* C40: whatever registerTool calls were made, accepted or refused, the three
\* maps of the registry agree: a name has a handler exactly when it has a
\* description (and the two maps list the names in the same order), and a
\* name with a schema has a handler.
C40_RegistryMapsAgree ==
    /\ KeySet(tools) = KeySet(toolDescriptions)
    /\ MapKeys(tools) = MapKeys(toolDescriptions)
    /\ KeySet(toolSchemas) \subseteq KeySet(tools)
    /\ \A name \in KeySet(tools) :
        /\ MapGet(tools, name).kind = "function"
        /\ MapGet(toolDescriptions, name).kind = "string"

\* a registration of toolA with a description that is no string was refused,
\* on a registry that holds toolB with a schema and the built-in tools without
C40_Witness ==
    /\ Registered
    /\ lastCall.threw
    /\ lastCall.error = DescriptionError
    /\ lastCall.args[1] = StrV(<<"toolA">>)
    /\ ~MapHas(tools, <<"toolA">>)
    /\ KeySet(tools) = {SystemGetTools, SystemPing, <<"toolB">>}
    /\ KeySet(toolSchemas) = {<<"toolB">>}

====
